---- MODULE Spec2Model ----
(***************************************************************************)
(* A model of @rumenx/feed: the Feed aggregate (core/Feed.ts), the         *)
(* validation engine (utils/Validator.ts), the XML helpers                 *)
(* (utils/XmlHelper.ts) and the date helpers (utils/DateHelper.ts).        *)
(*                                                                         *)
(* JavaScript strings are TLA+ strings; a character is a string of length  *)
(* one.  An optional field is a sequence of length 0 (absent) or 1.        *)
(* Instants are whole seconds since the epoch.                             *)
(***************************************************************************)
EXTENDS Integers, Sequences, FiniteSets, TLC

VARIABLES
    config,          \* Feed.config (fixed by the constructor)
    items,           \* Feed.items, a sequence of FeedItem.data records
    title, description, link, language,
    copyright, managingEditor, webMaster, category,   \* feed metadata
    lastBuildDate,   \* Feed.lastBuildDate, an ISO string
    now,             \* the wall clock read by getCurrentDate()
    ret              \* the last call: its name, argument and outcome

metadata == <<title, description, link, language,
              copyright, managingEditor, webMaster, category>>
aggregate == <<config, items, metadata, lastBuildDate>>
vars == <<config, items, title, description, link, language, copyright,
          managingEditor, webMaster, category, lastBuildDate, now, ret>>

(***************************************************************************)
(* Bounds of the model.                                                    *)
(***************************************************************************)
MaxItems == 2
MaxBatch == 2
MaxClock == 2
MaxCalls == 2

(***************************************************************************)
(* JavaScript string primitives used by the source.                        *)
(***************************************************************************)
Ch(s, i) == SubSeq(s, i, i)

IsSpace(c) == c \in {" ", "\t", "\n", "\r", "\f"}

StartsWith(s, p) == Len(s) >= Len(p) /\ SubSeq(s, 1, Len(p)) = p

EndsWith(s, p) ==
    Len(s) >= Len(p) /\ SubSeq(s, Len(s) - Len(p) + 1, Len(s)) = p

RECURSIVE TrimStartIdx(_, _)
TrimStartIdx(s, i) ==
    IF i <= Len(s) /\ IsSpace(Ch(s, i)) THEN TrimStartIdx(s, i + 1) ELSE i

RECURSIVE TrimEndIdx(_, _)
TrimEndIdx(s, j) ==
    IF j >= 1 /\ IsSpace(Ch(s, j)) THEN TrimEndIdx(s, j - 1) ELSE j

Trim(s) == SubSeq(s, TrimStartIdx(s, 1), TrimEndIdx(s, Len(s)))

UpperLetters == "ABCDEFGHIJKLMNOPQRSTUVWXYZ"
LowerLetters == "abcdefghijklmnopqrstuvwxyz"

UpperSet == { Ch(UpperLetters, i) : i \in 1..26 }
LowerSet == { Ch(LowerLetters, i) : i \in 1..26 }
LowerCh(c) ==
    IF c \in UpperSet
    THEN Ch(LowerLetters, CHOOSE i \in 1..26 : Ch(UpperLetters, i) = c)
    ELSE c

RECURSIVE ToLowerCase(_)
ToLowerCase(s) ==
    IF s = "" THEN ""
    ELSE LowerCh(Ch(s, 1)) \o ToLowerCase(SubSeq(s, 2, Len(s)))

\* The position of the first character of s at or after i that is in cs,
\* Len(s) + 1 when there is none.
RECURSIVE IndexOfAny(_, _, _)
IndexOfAny(s, cs, i) ==
    IF i > Len(s) \/ Ch(s, i) \in cs THEN i ELSE IndexOfAny(s, cs, i + 1)

HasSpace(s) == IndexOfAny(s, {" ", "\t", "\n", "\r", "\f"}, 1) <= Len(s)

(***************************************************************************)
(* utils/Validator.ts                                                      *)
(***************************************************************************)

\* Length of the prefix of s matched by /^https?:\/\//i, 0 when none.
SchemeLen(s) ==
    LET l == ToLowerCase(SubSeq(s, 1, IF Len(s) < 8 THEN Len(s) ELSE 8))
    IN  IF StartsWith(l, "http://") THEN 7
        ELSE IF StartsWith(l, "https://") THEN 8
        ELSE 0

\* /^https?:\/\/[^\s/$.?#].[^\s]*$/i on the trimmed url
isValidUrl(url) ==
    LET t == Trim(url)
        n == SchemeLen(t)
        rest == SubSeq(t, n + 1, Len(t))
    IN  /\ t # ""
        /\ n > 0
        /\ Len(rest) >= 2
        /\ ~IsSpace(Ch(rest, 1))
        /\ Ch(rest, 1) \notin {"/", "$", ".", "?", "#"}
        /\ Ch(rest, 2) \notin {"\n", "\r"}
        /\ ~HasSpace(SubSeq(rest, 3, Len(rest)))

\* The capture group of /^https?:\/\/([^/]+)/i, "" when there is no match.
HostnameMatch(url) ==
    LET n == SchemeLen(url)
    IN  IF n = 0 THEN ""
        ELSE SubSeq(url, n + 1, IndexOfAny(url, {"/"}, n + 1) - 1)

isAllowedDomain(url, allowedDomains) ==
    \/ allowedDomains = <<>>
    \/ LET hostname == ToLowerCase(HostnameMatch(url))
       IN  /\ hostname # ""
           /\ \E k \in 1..Len(allowedDomains) :
                LET normalizedDomain == ToLowerCase(allowedDomains[k])
                IN  \/ hostname = normalizedDomain
                    \/ EndsWith(hostname, "." \o normalizedDomain)

\* /^[a-z]{2}(-[A-Z]{2})?$/
isValidLanguageCode(lang) ==
    /\ Trim(lang) # ""
    /\ \/ Len(lang) = 2
       \/ /\ Len(lang) = 5
          /\ Ch(lang, 3) = "-"
          /\ Ch(lang, 4) \in UpperSet
          /\ Ch(lang, 5) \in UpperSet
    /\ Ch(lang, 1) \in LowerSet
    /\ Ch(lang, 2) \in LowerSet

\* priority is kept in tenths: 0..10 stands for 0.0..1.0
isValidPriority(priority) == priority >= 0 /\ priority <= 10

\* Each validator returns a sequence of errors: empty for the source's null.
validateRequiredString(value, fieldName) ==
    IF Trim(value) = ""
    THEN << [field |-> fieldName,
             type |-> "required",
             message |-> fieldName \o " is required and must be a non-empty string",
             value |-> value] >>
    ELSE << >>

validateUrl(url, fieldName, allowedDomains) ==
    LET stringError == validateRequiredString(url, fieldName)
    IN  IF stringError # << >> THEN stringError
        ELSE IF ~isValidUrl(url)
        THEN << [field |-> fieldName,
                 type |-> "invalid_url",
                 message |-> fieldName \o " must be a valid HTTP or HTTPS URL",
                 value |-> url] >>
        ELSE IF ~isAllowedDomain(url, allowedDomains)
        THEN << [field |-> fieldName,
                 type |-> "domain_not_allowed",
                 message |-> fieldName \o " domain is not in the allowed domains list",
                 value |-> url] >>
        ELSE << >>

\* item.images.forEach((image, index) => ...), index i - 1
RECURSIVE validateImages(_, _, _)
validateImages(images, allowedDomains, i) ==
    IF i > Len(images) THEN << >>
    ELSE validateUrl(images[i].url,
                     "images[" \o ToString(i - 1) \o "].url", allowedDomains)
         \o validateImages(images, allowedDomains, i + 1)

\* item.videos.forEach((video, index) => ...)
RECURSIVE validateVideos(_, _, _)
validateVideos(videos, allowedDomains, i) ==
    IF i > Len(videos) THEN << >>
    ELSE LET path == "videos[" \o ToString(i - 1) \o "]."
         IN  validateUrl(videos[i].thumbnail_url,
                         path \o "thumbnail_url", allowedDomains)
             \o validateUrl(videos[i].content_url,
                            path \o "content_url", allowedDomains)
             \o validateRequiredString(videos[i].title, path \o "title")
             \o validateRequiredString(videos[i].description,
                                       path \o "description")
             \o validateVideos(videos, allowedDomains, i + 1)

\* item.translations.forEach((translation, index) => ...)
RECURSIVE validateTranslations(_, _, _)
validateTranslations(translations, allowedDomains, i) ==
    IF i > Len(translations) THEN << >>
    ELSE LET path == "translations[" \o ToString(i - 1) \o "]."
             translation == translations[i]
         IN  validateRequiredString(translation.language, path \o "language")
             \o (IF ~isValidLanguageCode(translation.language)
                 THEN << [field |-> path \o "language",
                          type |-> "invalid_language",
                          message |-> "language must be a valid RFC 3066 language code",
                          value |-> translation.language] >>
                 ELSE << >>)
             \o validateUrl(translation.url, path \o "url", allowedDomains)
             \o validateTranslations(translations, allowedDomains, i + 1)

\* A validator that returns as soon as the title is found wanting.
validateFeedItemTitleFirst(item, allowedDomains) ==
    IF Trim(item.title) = ""
    THEN validateRequiredString(item.title, "title")
    ELSE validateRequiredString(item.description, "description")
         \o validateUrl(item.link, "link", allowedDomains)
         \o (IF item.author # << >>
             THEN validateRequiredString(item.author[1], "author")
             ELSE << >>)
         \o validateImages(item.images, allowedDomains, 1)
         \o validateVideos(item.videos, allowedDomains, 1)
         \o validateTranslations(item.translations, allowedDomains, 1)

validateFeedItem(item, allowedDomains) ==
    validateRequiredString(item.title, "title")
    \o validateRequiredString(item.description, "description")
    \o validateUrl(item.link, "link", allowedDomains)
    \o (IF item.author # << >>
        THEN validateRequiredString(item.author[1], "author")
        ELSE << >>)
    \o (IF item.priority # << >> /\ ~isValidPriority(item.priority[1])
        THEN << [field |-> "priority",
                 type |-> "invalid_range",
                 message |-> "priority must be a number between 0.0 and 1.0",
                 value |-> item.priority[1]] >>
        ELSE << >>)
    \o validateImages(item.images, allowedDomains, 1)
    \o validateVideos(item.videos, allowedDomains, 1)
    \o validateTranslations(item.translations, allowedDomains, 1)

(***************************************************************************)
(* utils/DateHelper.ts.  Instants are whole seconds of the first minute    *)
(* after the epoch, which is all the clock of this model ever shows.       *)
(***************************************************************************)
Pad2(n) == IF n < 10 THEN "0" \o ToString(n) ELSE ToString(n)

\* Date.prototype.toISOString
toISOString(n) == "1970-01-01T00:00:" \o Pad2(n) \o ".000Z"

\* Date.prototype.toUTCString
toUTCString(n) == "Thu, 01 Jan 1970 00:00:" \o Pad2(n) \o " GMT"

Instants == 0..59

\* new Date(string): <<n>> for the instant the string denotes, << >> for an
\* Invalid Date.  It recognises the two formats this program itself writes
\* and rejects text with no date in it; the inputs of the model are of
\* these kinds only.
DateParse(s) ==
    IF \E n \in Instants : s \in {toISOString(n), toUTCString(n)}
    THEN << CHOOSE n \in Instants : s \in {toISOString(n), toUTCString(n)} >>
    ELSE << >>

getCurrentDate == toISOString(now)

\* formatDate on a string: [threw, v] with v the ISO string or the message
formatDate(date) ==
    IF date = "" THEN [threw |-> FALSE, v |-> getCurrentDate]
    ELSE LET parsed == DateParse(date)
         IN  IF parsed = << >>
             THEN [threw |-> TRUE, v |-> "Invalid date string: " \o date]
             ELSE [threw |-> FALSE, v |-> toISOString(parsed[1])]

\* formatDate on a value of any of its three types.  A value is
\* [type, text, at]: type is the typeof, text the value as a template
\* literal prints it (the string itself for a string), at the instant in
\* milliseconds a number or a Date stands for, << >> for NaN, an Infinity or
\* an Invalid Date.  The instants of the model are whole seconds.
formatDateOf(date) ==
    IF date.type = "string" THEN formatDate(date.text)
    ELSE IF date.type = "number"
    THEN IF date.text = "NaN" \/ date.at = << 0 >>
         THEN [threw |-> FALSE, v |-> getCurrentDate]
         ELSE IF date.at = << >>
         THEN [threw |-> TRUE, v |-> "Invalid date number: " \o date.text]
         ELSE [threw |-> FALSE, v |-> toISOString(date.at[1] \div 1000)]
    ELSE IF date.at = << >>
    THEN [threw |-> TRUE, v |-> "Invalid Date object"]
    ELSE [threw |-> FALSE, v |-> toISOString(date.at[1] \div 1000)]

formatRssDate(date) ==
    LET isoDate == formatDate(date)
    IN  IF isoDate.threw THEN isoDate
        ELSE [threw |-> FALSE, v |-> toUTCString(DateParse(isoDate.v)[1])]

formatAtomDate(date) == formatDate(date)

(***************************************************************************)
(* core/Feed.ts: construction and item processing                          *)
(***************************************************************************)

\* A FeedItemData with only the required fields; inputs are built from it.
ItemData(t, d, l) ==
    [title |-> t, description |-> d, link |-> l,
     author |-> << >>, priority |-> << >>, pubdate |-> << >>, guid |-> << >>,
     category |-> << >>, enclosure |-> << >>, images |-> << >>,
     videos |-> << >>, translations |-> << >>, news |-> << >>]

ImageData(u) == [url |-> u, type |-> << >>, width |-> << >>, height |-> << >>]

VideoData(thumb, content, t, d) ==
    [thumbnail_url |-> thumb, content_url |-> content,
     title |-> t, description |-> d, duration |-> << >>]

TranslationData(lang, u) == [language |-> lang, url |-> u]

EnclosureData(u, ty) == [url |-> u, type |-> ty, length |-> << >>]

\* A FeedConfig as the caller writes it: every option may be left out.
NoConfig ==
    [baseUrl |-> << >>, validate |-> << >>, escapeContent |-> << >>,
     prettyPrint |-> << >>, dateFormat |-> << >>, language |-> << >>,
     maxItems |-> << >>, maxFileSize |-> << >>, allowedDomains |-> << >>,
     version |-> << >>]

\* x || d for strings and numbers, x ?? d for the rest
OrElse(opt, falsy, d) == IF opt = << >> \/ opt[1] = falsy THEN d ELSE opt[1]
Coalesce(opt, d) == IF opt = << >> THEN d ELSE opt[1]

DefaultMaxItems == 50000
DefaultMaxFileSize == 52428800

FeedConstructor(c) ==
    [baseUrl |-> OrElse(c.baseUrl, "", ""),
     validate |-> Coalesce(c.validate, FALSE),
     escapeContent |-> Coalesce(c.escapeContent, TRUE),
     prettyPrint |-> Coalesce(c.prettyPrint, FALSE),
     dateFormat |-> OrElse(c.dateFormat, "", "ISO"),
     language |-> OrElse(c.language, "", "en"),
     maxItems |-> OrElse(c.maxItems, 0, DefaultMaxItems),
     maxFileSize |-> OrElse(c.maxFileSize, 0, DefaultMaxFileSize),
     allowedDomains |-> Coalesce(c.allowedDomains, << >>),
     version |-> Coalesce(c.version, "1.0.0")]

\* A resolveUrl that keeps the trailing slash of the base.
resolveUrlKeepingSlash(url) ==
    IF config.baseUrl = "" \/ StartsWith(url, "http://") \/ StartsWith(url, "https://")
    THEN url
    ELSE config.baseUrl \o (IF StartsWith(url, "/") THEN url ELSE "/" \o url)

resolveUrl(url) ==
    IF config.baseUrl = "" \/ StartsWith(url, "http://") \/ StartsWith(url, "https://")
    THEN url
    ELSE LET base == IF EndsWith(config.baseUrl, "/")
                     THEN SubSeq(config.baseUrl, 1, Len(config.baseUrl) - 1)
                     ELSE config.baseUrl
             path == IF StartsWith(url, "/") THEN url ELSE "/" \o url
         IN  base \o path

processItemData(itemData) ==
    IF config.baseUrl # ""
    THEN [itemData EXCEPT
            !.link = resolveUrl(@),
            !.images = [i \in DOMAIN @ |-> [@[i] EXCEPT !.url = resolveUrl(@)]],
            !.videos = [i \in DOMAIN @ |->
                          [@[i] EXCEPT !.thumbnail_url = resolveUrl(@),
                                       !.content_url = resolveUrl(@)]],
            !.translations = [i \in DOMAIN @ |-> [@[i] EXCEPT !.url = resolveUrl(@)]]]
    ELSE itemData

\* errors.map(e => e.message).join(', ')
RECURSIVE JoinMessages(_)
JoinMessages(errors) ==
    IF errors = << >> THEN ""
    ELSE IF Len(errors) = 1 THEN errors[1].message
    ELSE errors[1].message \o ", " \o JoinMessages(Tail(errors))

(***************************************************************************)
(* The outcome of a call: what it returned, or the message it threw.       *)
(***************************************************************************)
Returned(o, a, v) == [op |-> o, arg |-> a, threw |-> FALSE, val |-> v]
Threw(o, a, m) == [op |-> o, arg |-> a, threw |-> TRUE, val |-> m]

\* addItem with the push moved before the validation.
addItemToPushFirst(st, itemData) ==
    LET errors == IF config.validate
                  THEN validateFeedItem(itemData, config.allowedDomains)
                  ELSE << >>
    IN  [items |-> Append(st.items, itemData),
         lastBuildDate |-> st.lastBuildDate,
         threw |-> errors # << >>,
         msg |-> IF errors # << >> THEN "Validation failed" ELSE ""]

\* One addItem on the state st = [items, lastBuildDate]: the state after it,
\* whether it threw, and the message thrown.
addItemTo(st, itemData) ==
    LET errors == IF config.validate
                  THEN validateFeedItem(itemData, config.allowedDomains)
                  ELSE << >>
    IN  IF errors # << >>
        THEN [items |-> st.items, lastBuildDate |-> st.lastBuildDate,
              threw |-> TRUE,
              msg |-> "Validation failed: " \o JoinMessages(errors)]
        ELSE [items |-> Append(st.items, processItemData(itemData)),
              lastBuildDate |-> getCurrentDate,
              threw |-> FALSE, msg |-> ""]

\* addItems made all-or-nothing: nothing is kept when an element fails.
addItemsAtomic(st, itemsData, i) ==
    IF \E k \in 1..Len(itemsData) :
            config.validate
            /\ validateFeedItem(itemsData[k], config.allowedDomains) # << >>
    THEN [items |-> st.items, lastBuildDate |-> st.lastBuildDate,
          threw |-> TRUE, msg |-> "Validation failed"]
    ELSE [items |-> st.items \o itemsData, lastBuildDate |-> getCurrentDate,
          threw |-> FALSE, msg |-> ""]

\* itemsData.forEach(itemData => this.addItem(itemData)): the first throw
\* ends the loop.
RECURSIVE addItemsTo(_, _, _)
addItemsTo(st, itemsData, i) ==
    IF i > Len(itemsData)
    THEN [items |-> st.items, lastBuildDate |-> st.lastBuildDate,
          threw |-> FALSE, msg |-> ""]
    ELSE LET r == addItemTo(st, itemsData[i])
         IN  IF r.threw THEN r ELSE addItemsTo(r, itemsData, i + 1)

\* The predicates callers pass to removeItems, by name.
Predicates == {"all", "none", "hasEnclosure", "titleIsA"}

predicate(p, item) ==
    CASE p = "all" -> TRUE
      [] p = "none" -> FALSE
      [] p = "hasEnclosure" -> item.enclosure # << >>
      [] p = "titleIsA" -> item.title = "A"
      [] p = "throwsOnM" -> item.title # "M"

\* The predicate throws when it is applied to the item: throwsOnM asks for
\* the removal of every item until it meets one titled M, where it throws.
predicateThrows(p, item) == p = "throwsOnM" /\ item.title = "M"

\* filter with the negation dropped
RECURSIVE filterItemsKeepMatching(_, _)
filterItemsKeepMatching(its, p) ==
    IF its = << >> THEN << >>
    ELSE (IF predicate(p, Head(its)) THEN << Head(its) >> ELSE << >>)
         \o filterItemsKeepMatching(Tail(its), p)

\* this.items.filter(item => !predicate(item))
RECURSIVE filterItems(_, _)
filterItems(its, p) ==
    IF its = << >> THEN << >>
    ELSE (IF ~predicate(p, Head(its)) THEN << Head(its) >> ELSE << >>)
         \o filterItems(Tail(its), p)

baseSize == 1000
averageItemSize == 2000

estimateSize == baseSize + Len(items) * averageItemSize

\* this.items.reduce((sum, item) => sum + (item.data[field]?.length || 0), 0)
RECURSIVE totalLength(_, _)
totalLength(its, field) ==
    IF its = << >> THEN 0
    ELSE Len(Head(its)[field]) + totalLength(Tail(its), field)

\* A priorities list in which an item without a priority stands as a 0.
RECURSIVE prioritiesOfCountingAll(_)
prioritiesOfCountingAll(its) ==
    IF its = << >> THEN << >>
    ELSE (IF Head(its).priority = << >> THEN << 0 >> ELSE Head(its).priority)
         \o prioritiesOfCountingAll(Tail(its))

\* The priorities that are present, in item order (in tenths).
RECURSIVE prioritiesOf(_)
prioritiesOf(its) ==
    IF its = << >> THEN << >>
    ELSE Head(its).priority \o prioritiesOf(Tail(its))

RECURSIVE Sum(_)
Sum(ns) == IF ns = << >> THEN 0 ELSE Head(ns) + Sum(Tail(ns))

\* averagePriority is kept as the pair <<sum, count>> of the priorities
\* present; the source divides the one by the other, and gives 0 for none.
getStats ==
    LET priorities == prioritiesOf(items)
    IN  [totalItems |-> Len(items),
         totalImages |-> totalLength(items, "images"),
         totalVideos |-> totalLength(items, "videos"),
         totalTranslations |-> totalLength(items, "translations"),
         averagePriority |-> << Sum(priorities), Len(priorities) >>,
         lastModified |-> lastBuildDate,
         sizeEstimate |-> estimateSize]

shouldSplit ==
    Len(items) > config.maxItems \/ estimateSize > config.maxFileSize

feedError(value, name) ==
    IF Trim(value) = ""
    THEN << [field |-> name, type |-> "required",
             message |-> "Feed " \o name \o " is required",
             value |-> value] >>
    ELSE << >>

\* An items loop that numbers the items from one.
RECURSIVE validateItemsFromOne(_, _)
validateItemsFromOne(its, i) ==
    IF i > Len(its) THEN << >>
    ELSE LET itemErrors == validateFeedItem(its[i], config.allowedDomains)
         IN  [k \in DOMAIN itemErrors |->
                [itemErrors[k] EXCEPT
                    !.field = "items[" \o ToString(i) \o "]." \o @]]
             \o validateItemsFromOne(its, i + 1)

\* this.items.forEach((item, index) => ...): every item's errors with the
\* field path prefixed by items[index].
RECURSIVE validateItems(_, _)
validateItems(its, i) ==
    IF i > Len(its) THEN << >>
    ELSE LET itemErrors == validateFeedItem(its[i], config.allowedDomains)
         IN  [k \in DOMAIN itemErrors |->
                [itemErrors[k] EXCEPT
                    !.field = "items[" \o ToString(i - 1) \o "]." \o @]]
             \o validateItems(its, i + 1)

\* Feed.validate()
validate ==
    feedError(title, "title")
    \o feedError(description, "description")
    \o feedError(link, "link")
    \o validateItems(items, 1)

(***************************************************************************)
(* utils/XmlHelper.ts                                                      *)
(***************************************************************************)

\* text.replace(/c/g, r) for a single character c
RECURSIVE ReplaceAll(_, _, _)
ReplaceAll(s, c, r) ==
    LET i == IndexOfAny(s, {c}, 1)
    IN  IF i > Len(s) THEN s
        ELSE SubSeq(s, 1, i - 1) \o r \o ReplaceAll(SubSeq(s, i + 1, Len(s)), c, r)

escapeXml(text) ==
    ReplaceAll(
      ReplaceAll(
        ReplaceAll(
          ReplaceAll(
            ReplaceAll(text, "&", "&amp;"),
            "<", "&lt;"),
          ">", "&gt;"),
        "\"", "&quot;"),
      "'", "&#39;")

\* xml.split(/(<[^>]*>)/) gives text, tag, text, ..., text, where a tag runs
\* from a "<" to the first ">" after it.  SplitScan reads the characters
\* lo..hi with the scanner state sc: the tokens closed so far, where the
\* current text began, and where the current tag began (0 outside a tag).
SplitChar(xml, i, sc) ==
    IF sc.tagStart = 0
    THEN IF Ch(xml, i) = "<" THEN [sc EXCEPT !.tagStart = i] ELSE sc
    ELSE IF Ch(xml, i) = ">"
         THEN [tokens |-> sc.tokens
                          \o << SubSeq(xml, sc.textStart, sc.tagStart - 1),
                                SubSeq(xml, sc.tagStart, i) >>,
               textStart |-> i + 1,
               tagStart |-> 0]
         ELSE sc

\* (the scanner state is read before the range is split, so that it is
\* evaluated once; textStart never exceeds Len(xml) + 1)
RECURSIVE SplitScan(_, _, _, _)
SplitScan(xml, lo, hi, sc) ==
    IF lo > hi \/ sc.textStart > Len(xml) + 1 THEN sc
    ELSE IF lo = hi THEN SplitChar(xml, lo, sc)
    ELSE LET mid == (lo + hi) \div 2
         IN  SplitScan(xml, mid + 1, hi, SplitScan(xml, lo, mid, sc))

SplitTags(xml) ==
    LET sc == SplitScan(xml, 1, Len(xml),
                        [tokens |-> << >>, textStart |-> 1, tagStart |-> 0])
    IN  sc.tokens \o << SubSeq(xml, sc.textStart, Len(xml)) >>

\* String.prototype.repeat for a count >= 0
RECURSIVE Repeat(_, _)
Repeat(s, n) == IF n <= 0 THEN "" ELSE s \o Repeat(s, n - 1)

\* indent.repeat(level) throws a RangeError for a negative level.
RangeError(count) ==
    [threw |-> TRUE, result |-> "RangeError: Invalid count value: " \o ToString(count),
     level |-> count]

\* tokens[k]?.trim(), '' outside the array where the source defaults to ''
TokenAt(tokens, k) == IF k \in DOMAIN tokens THEN Trim(tokens[k]) ELSE ""

Formatted(result, level) == [threw |-> FALSE, result |-> result, level |-> level]

\* One turn of the loop of formatXml, for token i, from the state
\* f = [threw, result, level].
FormatToken(tokens, indent, i, f) ==
    LET token == Trim(tokens[i])
        prevToken == TokenAt(tokens, i - 1)
        nextToken == TokenAt(tokens, i + 1)
        tokenAfter == TokenAt(tokens, i + 2)
        result == f.result
        level == f.level
    IN  IF token = "" THEN f
        ELSE IF StartsWith(token, "<?xml")
        THEN Formatted(result \o token \o "\n", level)
        ELSE IF StartsWith(token, "</")
        THEN LET isInlineContent == prevToken # "" /\ ~StartsWith(prevToken, "<")
             IN  IF ~isInlineContent /\ level - 1 < 0 THEN RangeError(level - 1)
                 ELSE Formatted(
                        result
                        \o (IF isInlineContent THEN "" ELSE Repeat(indent, level - 1))
                        \o token
                        \o (IF i < Len(tokens) THEN "\n" ELSE ""),
                        level - 1)
        ELSE IF StartsWith(token, "<") /\ ~EndsWith(token, "/>")
        THEN LET isSimpleInline ==
                    /\ nextToken # ""
                    /\ ~StartsWith(nextToken, "<")
                    /\ StartsWith(tokenAfter, "</")
             IN  IF level < 0 THEN RangeError(level)
                 ELSE Formatted(
                        result \o Repeat(indent, level) \o token
                        \o (IF isSimpleInline THEN "" ELSE "\n"),
                        level + 1)
        ELSE IF EndsWith(token, "/>")
        THEN IF level < 0 THEN RangeError(level)
             ELSE Formatted(result \o Repeat(indent, level) \o token \o "\n", level)
        ELSE IF StartsWith(nextToken, "</")
        THEN Formatted(result \o token, level)
        ELSE IF level < 0 THEN RangeError(level)
        ELSE Formatted(result \o Repeat(indent, level) \o token \o "\n", level)

\* The loop over the tokens lo..hi; a throw ends it.
RECURSIVE FormatTokens(_, _, _, _, _)
FormatTokens(tokens, indent, lo, hi, f) ==
    IF f.threw \/ lo > hi THEN f
    ELSE IF lo = hi THEN FormatToken(tokens, indent, lo, f)
    ELSE LET mid == (lo + hi) \div 2
         IN  FormatTokens(tokens, indent, mid + 1, hi,
                          FormatTokens(tokens, indent, lo, mid, f))

\* return result.trim(), unless the loop threw
formatResult(f) ==
    IF f.threw THEN [threw |-> TRUE, v |-> f.result]
    ELSE [threw |-> FALSE, v |-> Trim(f.result)]

formatSplit(tokens, indent) ==
    formatResult(FormatTokens(tokens, indent, 1, Len(tokens), Formatted("", 0)))

formatXmlWith(xml, indent) == formatSplit(SplitTags(xml), indent)

formatXml(xml) == formatXmlWith(xml, "  ")

(***************************************************************************)
(* core/Feed.ts: the renderers.  The markup is built as a sequence of      *)
(* parts, each the text of one piece of a template string: lit for the     *)
(* template's own text, val for the text of an interpolated expression.    *)
(* The string the source builds is the concatenation of the parts.         *)
(***************************************************************************)
Lit(t) == [val |-> FALSE, t |-> t]
Val(t) == [val |-> TRUE, t |-> t]

\* `${pad}<${name}>${v}</${name}>\n`
Element(pad, name, v) ==
    << Lit(pad \o "<" \o name \o ">"), Val(v), Lit("</" \o name \o ">\n") >>

\* ` ${name}="${v}"`
Attribute(name, v) == << Lit(" " \o name \o "=\""), Val(v), Lit("\"") >>

\* The concatenation of the parts lo..hi.
RECURSIVE JoinRange(_, _, _)
JoinRange(parts, lo, hi) ==
    IF lo > hi THEN ""
    ELSE IF lo = hi THEN parts[lo].t
    ELSE LET mid == (lo + hi) \div 2
         IN  JoinRange(parts, lo, mid) \o JoinRange(parts, mid + 1, hi)

JoinParts(parts) == JoinRange(parts, 1, Len(parts))

Rendered(parts) == [threw |-> FALSE, v |-> "", parts |-> parts]
RenderThrew(m) == [threw |-> TRUE, v |-> m, parts |-> << >>]

\* if (x) for an optional string or number: present and not '' / 0
Truthy(opt, falsy) == opt # << >> /\ opt[1] # falsy

RECURSIVE categoryElements(_)
categoryElements(categories) ==
    IF categories = << >> THEN << >>
    ELSE Element("      ", "category", escapeXml(Head(categories)))
         \o categoryElements(Tail(categories))

RECURSIVE imageElements(_)
imageElements(images) ==
    IF images = << >> THEN << >>
    ELSE LET image == Head(images)
         IN  << Lit("      <media:content url=\""), Val(escapeXml(image.url)), Lit("\"") >>
             \o (IF Truthy(image.type, "")
                 THEN Attribute("type", escapeXml(image.type[1])) ELSE << >>)
             \o (IF Truthy(image.width, 0)
                 THEN Attribute("width", ToString(image.width[1])) ELSE << >>)
             \o (IF Truthy(image.height, 0)
                 THEN Attribute("height", ToString(image.height[1])) ELSE << >>)
             \o << Lit("/>\n") >>
             \o imageElements(Tail(images))

RECURSIVE videoElements(_)
videoElements(videos) ==
    IF videos = << >> THEN << >>
    ELSE LET video == Head(videos)
         IN  << Lit("      <media:content url=\""), Val(escapeXml(video.content_url)),
                Lit("\" type=\"video\"") >>
             \o (IF Truthy(video.duration, 0)
                 THEN Attribute("duration", ToString(video.duration[1])) ELSE << >>)
             \o << Lit(">\n"),
                   Lit("        <media:thumbnail url=\""),
                   Val(escapeXml(video.thumbnail_url)), Lit("\"/>\n"),
                   Lit("      </media:content>\n") >>
             \o videoElements(Tail(videos))

generateRSSItem(item) ==
    LET pubDate == IF Truthy(item.pubdate, "")
                   THEN formatRssDate(item.pubdate[1])
                   ELSE [threw |-> FALSE, v |-> ""]
        guid == IF item.guid # << >> THEN item.guid[1] ELSE item.link
    IN  IF pubDate.threw THEN RenderThrew(pubDate.v)
        ELSE Rendered(
            << Lit("    <item>\n") >>
            \o Element("      ", "title", escapeXml(item.title))
            \o Element("      ", "link", escapeXml(item.link))
            \o Element("      ", "description", escapeXml(item.description))
            \o (IF Truthy(item.author, "")
                THEN Element("      ", "author", escapeXml(item.author[1]))
                ELSE << >>)
            \o categoryElements(item.category)
            \o (IF Truthy(item.pubdate, "")
                THEN Element("      ", "pubDate", pubDate.v)
                ELSE << >>)
            \o Element("      ", "guid", escapeXml(guid))
            \o (IF item.enclosure # << >>
                THEN << Lit("      <enclosure url=\""),
                        Val(escapeXml(item.enclosure[1].url)),
                        Lit("\" type=\""),
                        Val(escapeXml(item.enclosure[1].type)),
                        Lit("\"") >>
                     \o (IF Truthy(item.enclosure[1].length, 0)
                         THEN Attribute("length", ToString(item.enclosure[1].length[1]))
                         ELSE << >>)
                     \o << Lit("/>\n") >>
                ELSE << >>)
            \o imageElements(item.images)
            \o videoElements(item.videos)
            \o (IF item.news # << >> /\ Truthy(item.news[1].keywords, "")
                THEN Element("      ", "news:keywords",
                             escapeXml(item.news[1].keywords[1]))
                ELSE << >>)
            \o << Lit("    </item>\n") >>)

RECURSIVE atomCategories(_)
atomCategories(categories) ==
    IF categories = << >> THEN << >>
    ELSE << Lit("    <category term=\""), Val(escapeXml(Head(categories))),
            Lit("\"/>\n") >>
         \o atomCategories(Tail(categories))

generateAtomEntry(item) ==
    LET updated == IF Truthy(item.pubdate, "")
                   THEN formatAtomDate(item.pubdate[1])
                   ELSE [threw |-> FALSE, v |-> ""]
        id == IF item.guid # << >> THEN item.guid[1] ELSE item.link
    IN  IF updated.threw THEN RenderThrew(updated.v)
        ELSE Rendered(
            << Lit("  <entry>\n") >>
            \o Element("    ", "title", escapeXml(item.title))
            \o << Lit("    <link href=\""), Val(escapeXml(item.link)), Lit("\"/>\n") >>
            \o Element("    ", "id", escapeXml(id))
            \o (IF Truthy(item.pubdate, "")
                THEN Element("    ", "updated", updated.v)
                ELSE << >>)
            \o Element("    ", "summary", escapeXml(item.description))
            \o (IF Truthy(item.author, "")
                THEN << Lit("    <author>\n") >>
                     \o Element("      ", "name", escapeXml(item.author[1]))
                     \o << Lit("    </author>\n") >>
                ELSE << >>)
            \o atomCategories(item.category)
            \o << Lit("  </entry>\n") >>)

\* A renderer that walks the collection from its newest item to its oldest.
RECURSIVE renderItemsNewestFirst(_, _, _)
renderItemsNewestFirst(format, its, parts) ==
    IF its = << >> THEN [threw |-> FALSE, v |-> "", parts |-> parts]
    ELSE LET r == IF format = "rss" THEN generateRSSItem(its[Len(its)])
                  ELSE generateAtomEntry(its[Len(its)])
         IN  IF r.threw THEN r
             ELSE renderItemsNewestFirst(format, SubSeq(its, 1, Len(its) - 1),
                                         parts \o r.parts)

\* for (const feedItem of this.items) out += generate...(feedItem.data):
\* the first throw ends the loop.
RECURSIVE renderItems(_, _, _)
\* A renderer that always writes the link as the item's identifier.
renderItemIgnoringGuid(format, item) ==
    IF format = "rss" THEN generateRSSItem([item EXCEPT !.guid = << >>])
    ELSE generateAtomEntry([item EXCEPT !.guid = << >>])

renderItem(format, item) ==
    IF format = "rss" THEN generateRSSItem(item) ELSE generateAtomEntry(item)

\* r is what rendering Head(its) gave
renderRest(format, its, parts, r) ==
    IF r.threw THEN r ELSE renderItems(format, Tail(its), parts \o r.parts)

renderItems(format, its, parts) ==
    IF its = << >> THEN Rendered(parts)
    ELSE renderRest(format, its, parts, renderItem(format, Head(its)))

\* A hasMedia that looks at the first item only.
hasMediaOfTheFirst ==
    items # << >> /\ (items[1].images # << >> \/ items[1].videos # << >>)

hasMedia ==
    \E i \in DOMAIN items : items[i].images # << >> \/ items[i].videos # << >>

hasGoogleNews == \E i \in DOMAIN items : items[i].news # << >>

xmlDeclaration == "<?xml version=\"1.0\" encoding=\"UTF-8\"?>"

\* `@rumenx/feed v${this.config.version || '1.0.0'}`
generatorText ==
    << Lit("@rumenx/feed v"),
       Val(IF config.version = "" THEN "1.0.0" ELSE config.version) >>

\* The document's closing tags follow the items, if none of them threw.
closeDocument(body, closing) ==
    IF body.threw THEN body ELSE Rendered(body.parts \o closing)

\* return formatXml(`${xmlDeclaration}\n${...}`)
formatDocument(r) ==
    IF r.threw THEN [threw |-> TRUE, v |-> r.v] ELSE formatXml(JoinParts(r.parts))

\* generateRSS up to its loop over the items; date is
\* formatRssDate(this.lastBuildDate).
rssChannel(date) ==
    << Lit(xmlDeclaration \o "\n"), Lit("<rss version=\"2.0\"") >>
    \o (IF hasMedia
        THEN << Lit(" xmlns:media=\"http://search.yahoo.com/mrss/\"") >>
        ELSE << >>)
    \o (IF hasGoogleNews
        THEN << Lit(" xmlns:news=\"http://www.google.com/schemas/sitemap-news/0.9\"") >>
        ELSE << >>)
    \o << Lit(">\n"), Lit("  <channel>\n") >>
    \o Element("    ", "title", escapeXml(title))
    \o Element("    ", "link", escapeXml(link))
    \o Element("    ", "description", escapeXml(description))
    \o (IF language # ""
        THEN Element("    ", "language", escapeXml(language)) ELSE << >>)
    \o (IF managingEditor # ""
        THEN Element("    ", "managingEditor", escapeXml(managingEditor))
        ELSE << >>)
    \o (IF webMaster # ""
        THEN Element("    ", "webMaster", escapeXml(webMaster)) ELSE << >>)
    \o (IF category # ""
        THEN Element("    ", "category", escapeXml(category)) ELSE << >>)
    \o (IF copyright # ""
        THEN Element("    ", "copyright", escapeXml(copyright)) ELSE << >>)
    \o Element("    ", "lastBuildDate", date.v)
    \o << Lit("    <generator>") >> \o generatorText
    \o << Lit("</generator>\n") >>

rssDocument(date) ==
    IF date.threw THEN RenderThrew(date.v)
    ELSE closeDocument(renderItems("rss", items, rssChannel(date)),
                       << Lit("  </channel>\n"), Lit("</rss>") >>)

\* The parts of the string handed to formatXml by generateRSS.
generateRSSParts == rssDocument(formatRssDate(lastBuildDate))

generateRSS == formatDocument(generateRSSParts)

\* generateAtom up to its loop over the items; date is
\* formatAtomDate(this.lastBuildDate).
atomFeed(date) ==
    << Lit(xmlDeclaration \o "\n"),
       Lit("<feed xmlns=\"http://www.w3.org/2005/Atom\">\n") >>
    \o Element("  ", "title", escapeXml(title))
    \o << Lit("  <link href=\""), Val(escapeXml(link)), Lit("\"/>\n") >>
    \o Element("  ", "id", escapeXml(link))
    \o Element("  ", "updated", date.v)
    \o (IF description # ""
        THEN Element("  ", "subtitle", escapeXml(description)) ELSE << >>)
    \o (IF managingEditor # ""
        THEN << Lit("  <author>\n") >>
             \o Element("    ", "email", escapeXml(managingEditor))
             \o << Lit("  </author>\n") >>
        ELSE << >>)
    \o (IF copyright # ""
        THEN Element("  ", "rights", escapeXml(copyright)) ELSE << >>)
    \o << Lit("  <generator>") >> \o generatorText
    \o << Lit("</generator>\n") >>

atomDocument(date) ==
    IF date.threw THEN RenderThrew(date.v)
    ELSE closeDocument(renderItems("atom", items, atomFeed(date)),
                       << Lit("</feed>") >>)

\* The parts of the string handed to formatXml by generateAtom.
generateAtomParts == atomDocument(formatAtomDate(lastBuildDate))

generateAtom == formatDocument(generateAtomParts)

\* A toXML that renders RSS for every format it does not know.
toXMLDefaultingToRss(format) ==
    IF format = "atom" THEN generateAtom ELSE generateRSS

toXML(format) ==
    IF format = "rss" THEN generateRSS
    ELSE IF format = "atom" THEN generateAtom
    ELSE [threw |-> TRUE, v |-> "Unsupported feed format: " \o format]

(***************************************************************************)
(* The operations of the aggregate, one action each.                       *)
(***************************************************************************)
Unchanged_metadata ==
    UNCHANGED <<title, description, link, language,
                copyright, managingEditor, webMaster, category>>

AddItem(itemData) ==
    /\ Len(items) < MaxItems
    /\ LET r == addItemTo([items |-> items, lastBuildDate |-> lastBuildDate],
                          itemData)
       IN  /\ items' = r.items
           /\ lastBuildDate' = r.lastBuildDate
           /\ ret' = IF r.threw THEN Threw("addItem", itemData, r.msg)
                     ELSE Returned("addItem", itemData, "this")
    /\ Unchanged_metadata
    /\ UNCHANGED <<config, now>>

AddItems(itemsData) ==
    /\ Len(items) + Len(itemsData) <= MaxItems
    /\ LET r == addItemsTo([items |-> items, lastBuildDate |-> lastBuildDate],
                           itemsData, 1)
       IN  /\ items' = r.items
           /\ lastBuildDate' = r.lastBuildDate
           /\ ret' = IF r.threw THEN Threw("addItems", itemsData, r.msg)
                     ELSE Returned("addItems", itemsData, "this")
    /\ Unchanged_metadata
    /\ UNCHANGED <<config, now>>

\* removeItems that refreshes lastBuildDate only when it removed something
RemoveItemsLazyDate(p) ==
    /\ items' = filterItems(items, p)
    /\ lastBuildDate' = IF items' = items THEN lastBuildDate ELSE getCurrentDate
    /\ ret' = Returned("removeItems", p, "this")
    /\ Unchanged_metadata
    /\ UNCHANGED <<config, now>>

\* A removeItems that takes the items out of the array one by one, so
\* that a throw of the predicate leaves the earlier removals in place.
RemoveItemsInPlace(p) ==
    /\ IF \E i \in DOMAIN items : predicateThrows(p, items[i])
       THEN LET k == CHOOSE i \in DOMAIN items :
                        /\ predicateThrows(p, items[i])
                        /\ \A j \in 1..(i - 1) : ~predicateThrows(p, items[j])
            IN  /\ items' = filterItems(SubSeq(items, 1, k - 1), p)
                             \o SubSeq(items, k, Len(items))
                /\ lastBuildDate' = lastBuildDate
                /\ ret' = Threw("removeItems", p, "thrown by the predicate")
       ELSE /\ items' = filterItems(items, p)
            /\ lastBuildDate' = getCurrentDate
            /\ ret' = Returned("removeItems", p, "this")
    /\ Unchanged_metadata
    /\ UNCHANGED <<config, now>>

\* this.items = this.items.filter(...): when the predicate throws, filter
\* throws before anything is assigned.
RemoveItems(p) ==
    /\ IF \E i \in DOMAIN items : predicateThrows(p, items[i])
       THEN /\ ret' = Threw("removeItems", p, "thrown by the predicate")
            /\ UNCHANGED <<items, lastBuildDate>>
       ELSE /\ items' = filterItems(items, p)
            /\ lastBuildDate' = getCurrentDate
            /\ ret' = Returned("removeItems", p, "this")
    /\ Unchanged_metadata
    /\ UNCHANGED <<config, now>>

Clear ==
    /\ items' = << >>
    /\ lastBuildDate' = getCurrentDate
    /\ ret' = Returned("clear", << >>, "this")
    /\ Unchanged_metadata
    /\ UNCHANGED <<config, now>>

GetItems ==
    /\ ret' = Returned("getItems", << >>, items)
    /\ Unchanged_metadata
    /\ UNCHANGED <<config, items, lastBuildDate, now>>

GetItemCount ==
    /\ ret' = Returned("getItemCount", << >>, Len(items))
    /\ Unchanged_metadata
    /\ UNCHANGED <<config, items, lastBuildDate, now>>

\* A validate that reports what it finds the way addItem does.
ValidateThrowing ==
    /\ ret' = IF validate = << >> THEN Returned("validate", << >>, validate)
              ELSE Threw("validate", << >>,
                         "Validation failed: " \o JoinMessages(validate))
    /\ Unchanged_metadata
    /\ UNCHANGED <<config, items, lastBuildDate, now>>

Validate ==
    /\ ret' = Returned("validate", << >>, validate)
    /\ Unchanged_metadata
    /\ UNCHANGED <<config, items, lastBuildDate, now>>

GetStats ==
    /\ ret' = Returned("getStats", << >>, getStats)
    /\ Unchanged_metadata
    /\ UNCHANGED <<config, items, lastBuildDate, now>>

ShouldSplit ==
    /\ ret' = Returned("shouldSplit", << >>, shouldSplit)
    /\ Unchanged_metadata
    /\ UNCHANGED <<config, items, lastBuildDate, now>>

\* What a call that gave r hands to its caller.
Outcome(o, a, r) == IF r.threw THEN Threw(o, a, r.v) ELSE Returned(o, a, r.v)

\* A toXML that stamps the feed with the time of the rendering.
ToXMLStamping(format) ==
    /\ ret' = Outcome("toXML", format, toXML(format))
    /\ lastBuildDate' = getCurrentDate
    /\ Unchanged_metadata
    /\ UNCHANGED <<config, items, now>>

ToXML(format) ==
    /\ ret' = Outcome("toXML", format, toXML(format))
    /\ Unchanged_metadata
    /\ UNCHANGED <<config, items, lastBuildDate, now>>

\* The setters: this.<field> = value.trim(); return this.  None of them
\* assigns lastBuildDate.
SetTitle(value) ==
    /\ title' = Trim(value)
    /\ ret' = Returned("setTitle", value, "this")
    /\ UNCHANGED <<description, link, language, copyright, managingEditor, webMaster, category>>
    /\ UNCHANGED <<config, items, lastBuildDate, now>>

SetDescription(value) ==
    /\ description' = Trim(value)
    /\ ret' = Returned("setDescription", value, "this")
    /\ UNCHANGED <<title, link, language, copyright, managingEditor, webMaster, category>>
    /\ UNCHANGED <<config, items, lastBuildDate, now>>

SetLink(value) ==
    /\ link' = Trim(value)
    /\ ret' = Returned("setLink", value, "this")
    /\ UNCHANGED <<title, description, language, copyright, managingEditor, webMaster, category>>
    /\ UNCHANGED <<config, items, lastBuildDate, now>>

SetLanguage(value) ==
    /\ language' = Trim(value)
    /\ ret' = Returned("setLanguage", value, "this")
    /\ UNCHANGED <<title, description, link, copyright, managingEditor, webMaster, category>>
    /\ UNCHANGED <<config, items, lastBuildDate, now>>

SetCopyright(value) ==
    /\ copyright' = Trim(value)
    /\ ret' = Returned("setCopyright", value, "this")
    /\ UNCHANGED <<title, description, link, language, managingEditor, webMaster, category>>
    /\ UNCHANGED <<config, items, lastBuildDate, now>>

SetManagingEditor(value) ==
    /\ managingEditor' = Trim(value)
    /\ ret' = Returned("setManagingEditor", value, "this")
    /\ UNCHANGED <<title, description, link, language, copyright, webMaster, category>>
    /\ UNCHANGED <<config, items, lastBuildDate, now>>

SetWebMaster(value) ==
    /\ webMaster' = Trim(value)
    /\ ret' = Returned("setWebMaster", value, "this")
    /\ UNCHANGED <<title, description, link, language, copyright, managingEditor, category>>
    /\ UNCHANGED <<config, items, lastBuildDate, now>>

SetCategory(value) ==
    /\ category' = Trim(value)
    /\ ret' = Returned("setCategory", value, "this")
    /\ UNCHANGED <<title, description, link, language, copyright, managingEditor, webMaster>>
    /\ UNCHANGED <<config, items, lastBuildDate, now>>

\* FeedItem.getPubDate(): the item's pubdate, or the current date for an
\* item that has none.
getPubDate(item) ==
    IF ~Truthy(item.pubdate, "") THEN getCurrentDate ELSE item.pubdate[1]

\* feed.getItems()[i - 1].getPubDate()
GetPubDate(i) ==
    /\ i \in DOMAIN items
    /\ ret' = Returned("getPubDate", i, getPubDate(items[i]))
    /\ Unchanged_metadata
    /\ UNCHANGED <<config, items, lastBuildDate, now>>

\* Time passes between two calls.
Tick ==
    /\ now < MaxClock
    /\ now' = now + 1
    /\ Unchanged_metadata
    /\ UNCHANGED <<config, items, lastBuildDate, ret>>

(***************************************************************************)
(* Spec: a feed is constructed, then items are added and removed.          *)
(***************************************************************************)
ExampleDomains == << "example.com" >>

GoodItem == ItemData("A", "B", "https://example.com/a")
BlankItem == ItemData("  ", "D", "not-a-url")
EnclosureItem ==
    [ItemData("E", "D", "https://example.com/e") EXCEPT
        !.enclosure = << EnclosureData("https://blocked.com/e.mp3", "audio/mpeg") >>]
QueryItem == ItemData("Q", "D", "https://blocked.com?ref=.example.com")
MediaItem ==
    [ItemData("M", "D", "https://sub.example.com/m") EXCEPT
        !.priority = << 5 >>,
        !.images = << ImageData("https://img.example.com/m.png") >>,
        !.videos = << VideoData("https://example.com/t.png",
                                "https://cdn.example.com/v.mp4", "V", "VD") >>,
        !.translations = << TranslationData("de", "https://example.com/de/m") >>]

Batches == UNION { [1..n -> {GoodItem, BlankItem}] : n \in 0..MaxBatch }

NoCall == Returned("new", << >>, "this")

InitFeed(c) ==
    /\ config = FeedConstructor(c)
    /\ items = << >>
    /\ title = ""
    /\ description = ""
    /\ link = ""
    /\ language = FeedConstructor(c).language
    /\ copyright = ""
    /\ managingEditor = ""
    /\ webMaster = ""
    /\ category = ""
    /\ now = 0
    /\ lastBuildDate = toISOString(0)

Init ==
    /\ ret = NoCall
    /\ \E c \in { NoConfig,
                  [NoConfig EXCEPT !.validate = << TRUE >>,
                                   !.allowedDomains = << ExampleDomains >>] } :
          InitFeed(c)

Next ==
    \/ \E itemData \in {GoodItem, BlankItem, EnclosureItem, QueryItem, MediaItem} : AddItem(itemData)
    \/ \E itemsData \in Batches : AddItems(itemsData)
    \/ \E p \in Predicates : RemoveItems(p)
    \/ Clear
    \/ GetStats
    \/ Tick

Spec == Init /\ [][Next]_vars

(***************************************************************************)
(* SpecUrl: the URL validators as pure functions.  The arguments are       *)
(* drawn at the start and kept in ret.arg; a call stores its result.       *)
(***************************************************************************)

UrlInputs ==
    { s \o a \o t :
        s \in {"https://", "http://", "HTTPS://", "ftp://"},
        a \in {"example.com", "sub.example.com", "fake-example.com",
               "EXAMPLE.COM", "blocked.com", "example.com:8080",
               "user@example.com", "example.com@blocked.com", "test.org"},
        t \in {"", "/path", "?ref=.example.com", "#.example.com", "/a?b=c"} }

InitUrl ==
    /\ InitFeed(NoConfig)
    /\ \E url \in UrlInputs, allowedDomains \in { << >>, << "example.com" >>, << "Test.ORG", "example.com" >> } :
          ret = Returned("args",
                         [url |-> url, allowedDomains |-> allowedDomains], << >>)

CallValidateUrl ==
    /\ ret.op = "args"
    /\ ret' = Returned("validateUrl", ret.arg,
                       validateUrl(ret.arg.url, "link", ret.arg.allowedDomains))
    /\ Unchanged_metadata
    /\ UNCHANGED <<config, items, lastBuildDate, now>>

CallIsAllowedDomain ==
    /\ ret.op = "args"
    /\ ret' = Returned("isAllowedDomain", ret.arg,
                       isAllowedDomain(ret.arg.url, ret.arg.allowedDomains))
    /\ Unchanged_metadata
    /\ UNCHANGED <<config, items, lastBuildDate, now>>

NextUrl == CallValidateUrl \/ CallIsAllowedDomain

SpecUrl == InitUrl /\ [][NextUrl]_vars

(***************************************************************************)
(* SpecRender: a feed is constructed and configured through its setters,   *)
(* items are added, and the feed is queried and rendered.                  *)
(***************************************************************************)

\* setTitle ... setCategory: this.<field> = value.trim(); a field no setter
\* was called for keeps the value the constructor gave it.
setField(value, constructed) ==
    IF value = << >> THEN constructed ELSE Trim(value[1])

NoMetadata ==
    [title |-> << >>, description |-> << >>, link |-> << >>,
     language |-> << >>, copyright |-> << >>, managingEditor |-> << >>,
     webMaster |-> << >>, category |-> << >>]

FullMetadata ==
    [title |-> << " News & <Views> " >>,
     description |-> << "\"All\" the 'news'" >>,
     link |-> << "https://example.com/?a=1&b=2" >>,
     language |-> << "en-US" >>,
     copyright |-> << "(c) A&B" >>,
     managingEditor |-> << "ed@example.com (Ed)" >>,
     webMaster |-> << "web@example.com" >>,
     category |-> << "R&D" >>]

RichItem ==
    [ItemData("Q&A <1>", "\"x\" is 'y'", "https://example.com/?a=1&b=2") EXCEPT
        !.author = << "a@example.com (A & B)" >>,
        !.category = << "c&d", "e" >>,
        !.pubdate = << toISOString(1) >>,
        !.guid = << "g<1>" >>,
        !.enclosure = << [EnclosureData("https://example.com/e.mp3?x=1&y=2",
                                        "audio/mpeg")
                          EXCEPT !.length = << 12 >>] >>,
        !.images = << [ImageData("https://example.com/i.png")
                       EXCEPT !.type = << "image/png" >>, !.width = << 4 >>] >>,
        !.videos = << [VideoData("https://example.com/t.png",
                                 "https://example.com/v.mp4", "V", "VD")
                       EXCEPT !.duration = << 7 >>] >>,
        !.news = << [keywords |-> << "k<1>, k2" >>] >>]

InitRender ==
    /\ ret = NoCall
    /\ \E c \in { NoConfig,
                  [NoConfig EXCEPT !.version = << "<b>" >>],
                  [NoConfig EXCEPT !.version = << "</a>" >>] },
          m \in {NoMetadata, FullMetadata} :
          /\ config = FeedConstructor(c)
          /\ items = << >>
          /\ title = setField(m.title, "")
          /\ description = setField(m.description, "")
          /\ link = setField(m.link, "")
          /\ language = setField(m.language, FeedConstructor(c).language)
          /\ copyright = setField(m.copyright, "")
          /\ managingEditor = setField(m.managingEditor, "")
          /\ webMaster = setField(m.webMaster, "")
          /\ category = setField(m.category, "")
          /\ now = 0
          /\ lastBuildDate = toISOString(0)

NextRender ==
    \/ \E itemData \in { GoodItem, RichItem,
                          [GoodItem EXCEPT !.pubdate = << "not a date" >>] } :
          AddItem(itemData)
    \/ GetItems
    \/ GetItemCount
    \/ Validate
    \/ GetStats
    \/ ShouldSplit
    \/ \E format \in {"rss", "atom", "json"} : ToXML(format)
    \/ Tick

SpecRender == InitRender /\ [][NextRender]_vars

(***************************************************************************)
(* SpecSet: a feed is constructed, its metadata is set and items are added *)
(* while time passes.                                                      *)
(***************************************************************************)
InitSet == ret = NoCall /\ InitFeed(NoConfig)

NextSet ==
    \/ SetTitle(" News ")
    \/ SetDescription("All the news")
    \/ SetLink("https://example.com")
    \/ SetLanguage("de")
    \/ SetCopyright("(c) A")
    \/ SetManagingEditor("ed@example.com")
    \/ SetWebMaster("web@example.com")
    \/ SetCategory("News")
    \/ AddItem(GoodItem)
    \/ \E itemsData \in { << >>, << GoodItem >> } : AddItems(itemsData)
    \/ Tick

SpecSet == InitSet /\ [][NextSet]_vars

(***************************************************************************)
(* SpecOps: a feed is constructed, some of its metadata is set, items are  *)
(* added, and the feed and its items are read while time passes.           *)
(***************************************************************************)
NextOps ==
    \/ SetTitle("T")
    \/ SetDescription(" D ")
    \/ SetLink("not a url")
    \/ \E itemData \in {GoodItem, BlankItem, RichItem} : AddItem(itemData)
    \/ Validate
    \/ \E i \in 1..MaxItems : GetPubDate(i)
    \/ Tick

SpecOps == Init /\ [][NextOps]_vars

(***************************************************************************)
(* SpecRules: validateFeedItem is called, more than once, on an item.      *)
(***************************************************************************)
InitRules ==
    /\ InitFeed(NoConfig)
    /\ \E allowedDomains \in {<< >>, ExampleDomains} :
       \E item \in
          { [ItemData(t, d, l) EXCEPT !.author = a, !.priority = p, !.images = im,
                                      !.videos = v, !.translations = tr] :
              t \in {"A", " "},
              d \in {"B", ""},
              l \in {"https://example.com/a", "ftp://example.com/a", "https://blocked.com/a"},
              a \in {<< >>, << " " >>},
              p \in {<< >>, << 5 >>, << 11 >>},
              im \in {<< >>, << ImageData("i.png"), ImageData("https://example.com/i.png") >>},
              v \in {<< >>, << VideoData("", "https://blocked.com/v.mp4", "V", " ") >>},
              tr \in {<< >>, << TranslationData("", "https://example.com/de"),
                                TranslationData("de_DE", "de") >>} } :
          ret = Returned("args",
                         [item |-> item, allowedDomains |-> allowedDomains,
                          call |-> 0],
                         << >>)

CallValidateFeedItem ==
    /\ ret.arg.call < MaxCalls
    /\ ret' = Returned("validateFeedItem",
                       [ret.arg EXCEPT !.call = @ + 1],
                       validateFeedItem(ret.arg.item, ret.arg.allowedDomains))
    /\ Unchanged_metadata
    /\ UNCHANGED <<config, items, lastBuildDate, now>>

SpecRules == InitRules /\ [][CallValidateFeedItem]_vars

(***************************************************************************)
(* SpecSplit: a feed is constructed with limits on its size, items are     *)
(* added and the feed is asked whether it should be split.                 *)
(***************************************************************************)
InitSplit ==
    /\ ret = NoCall
    /\ \E maxItems \in {<< >>, << 0 >>, << 1 >>, << 2 >>},
          maxFileSize \in {<< >>, << 0 >>, << 3000 >>, << 5000 >>} :
          InitFeed([NoConfig EXCEPT !.maxItems = maxItems,
                                    !.maxFileSize = maxFileSize])

NextSplit ==
    \/ AddItem(GoodItem)
    \/ ShouldSplit
    \/ Tick

SpecSplit == InitSplit /\ [][NextSplit]_vars

(***************************************************************************)
(* SpecContent: feeds constructed with escapeContent set or cleared, whose *)
(* items carry images, videos or a news block, or none of them, with       *)
(* optional attributes left out, supplied, or supplied as 0; items are     *)
(* added and removed between renderings.                                   *)
(***************************************************************************)
InitContent ==
    /\ ret = NoCall
    /\ \E escapeContent \in {<< >>, << TRUE >>, << FALSE >>} :
          InitFeed([NoConfig EXCEPT !.escapeContent = escapeContent])

NextContent ==
    \/ SetTitle("A & B")
    \/ \E itemData \in { EnclosureItem, MediaItem,
                          [GoodItem EXCEPT !.images = MediaItem.images],
                          [GoodItem EXCEPT !.videos = MediaItem.videos],
                          [GoodItem EXCEPT !.news = RichItem.news],
                          [ItemData("Z", "D", "https://example.com/z") EXCEPT
                              !.enclosure = << [EnclosureData("https://example.com/z.mp3",
                                                              "audio/mpeg")
                                                EXCEPT !.length = << 0 >>] >>,
                              !.images = << [ImageData("https://example.com/z.png")
                                             EXCEPT !.type = << "image/png" >>,
                                                    !.width = << 0 >>,
                                                    !.height = << 3 >>] >>,
                              !.videos = << [VideoData("https://example.com/t.png",
                                                       "https://example.com/z.mp4",
                                                       "V", "VD")
                                             EXCEPT !.duration = << 0 >>] >>] } :
          AddItem(itemData)
    \/ \E p \in {"all", "hasEnclosure", "titleIsA"} : RemoveItems(p)
    \/ \E format \in {"rss", "atom"} : ToXML(format)

SpecContent == InitContent /\ [][NextContent]_vars

(***************************************************************************)
(* What the caller does with the objects it shares with the feed.  ret     *)
(* holds them: after addItem, ret.arg is the object the caller passed, as  *)
(* it is after the call; after getItems, ret.val is the returned array.    *)
(***************************************************************************)

\* The stored item would follow the caller's object if the feed kept the
\* object it was given.
CallerSetsTitleOfShared(value) ==
    /\ ret.op = "addItem" /\ ~ret.threw
    /\ ret' = Returned("input.title =", [ret.arg EXCEPT !.title = value], value)
    /\ items' = [items EXCEPT ![Len(items)].title = value]
    /\ Unchanged_metadata
    /\ UNCHANGED <<config, lastBuildDate, now>>

\* input.title = value, on the object passed to the addItem that has just
\* returned.  processItemData works on { ...itemData } and the FeedItem
\* constructor stores { ...data }: the stored item is another object.
CallerSetsTitle(value) ==
    /\ ret.op = "addItem" /\ ~ret.threw
    /\ ret' = Returned("input.title =", [ret.arg EXCEPT !.title = value], value)
    /\ Unchanged_metadata
    /\ UNCHANGED <<config, items, lastBuildDate, now>>

\* array.push(item) or array.pop() on the array getItems has just returned,
\* which is [...this.items]: another array than the feed's.
CallerChangesArray(method) ==
    /\ ret.op = "getItems"
    /\ ret' = Returned("array." \o method, ret.arg,
                       IF method = "push" THEN Append(ret.val, GoodItem)
                       ELSE SubSeq(ret.val, 1, Len(ret.val) - 1))
    /\ Unchanged_metadata
    /\ UNCHANGED <<config, items, lastBuildDate, now>>

(***************************************************************************)
(* SpecBase: feeds constructed with and without a baseUrl, validating or   *)
(* not, to which items with relative and absolute URLs are added, and from *)
(* which items are removed, while the caller keeps and changes the objects *)
(* it passed and received.                                                 *)
(***************************************************************************)
BaseItems ==
    { ItemData("A", "B", "/a"),
      ItemData("A", "B", "a"),
      ItemData("A", "B", "http://example.com/a"),
      ItemData("A", "B", "HTTPS://example.com/a"),
      [ItemData("M", "D", "https://sub.example.com/m") EXCEPT
          !.images = << ImageData("i.png"),
                        ImageData("https://img.example.com/i.png") >>,
          !.videos = << VideoData("/t.png", "v.mp4", "V", "VD") >>,
          !.translations = << TranslationData("de", "de/m") >>] }

InitBase ==
    /\ ret = NoCall
    /\ \E baseUrl \in {<< >>, << "https://example.com" >>, << "https://example.com/" >>},
          validating \in {<< >>, << TRUE >>} :
          InitFeed([NoConfig EXCEPT !.baseUrl = baseUrl,
                                    !.validate = validating,
                                    !.allowedDomains = << ExampleDomains >>])

NextBase ==
    \/ \E itemData \in BaseItems : AddItem(itemData)
    \/ \E p \in {"titleIsA", "throwsOnM"} : RemoveItems(p)
    \/ Validate
    \/ GetItems
    \/ CallerSetsTitle("changed")
    \/ \E method \in {"push", "pop"} : CallerChangesArray(method)
    \/ Tick

SpecBase == InitBase /\ [][NextBase]_vars

(***************************************************************************)
(* SpecDate: formatDate as a function of its argument and of the clock.    *)
(* The argument is drawn at the start and kept in ret.arg.                 *)
(***************************************************************************)
InitDate ==
    /\ InitFeed(NoConfig)
    /\ \E date \in
          { [type |-> "string", text |-> t, at |-> << >>] :
              t \in { toISOString(0), toISOString(1), toISOString(2),
                      toUTCString(0), toUTCString(1), toUTCString(2),
                      "", "not a date", "2024-13-45" } }
          \cup { [type |-> "number", text |-> ToString(ms), at |-> << ms >>] :
                   ms \in {0, 1000, 2000, 59000} }
          \cup { [type |-> "number", text |-> t, at |-> << >>] :
                   t \in {"NaN", "Infinity"} }
          \cup { [type |-> "Date", text |-> toISOString(ms \div 1000), at |-> << ms >>] :
                   ms \in {0, 1000, 2000} }
          \cup { [type |-> "Date", text |-> "Invalid Date", at |-> << >>] } :
          ret = Returned("args", date, << >>)

CallFormatDate ==
    /\ ret' = Outcome("formatDate", ret.arg, formatDateOf(ret.arg))
    /\ Unchanged_metadata
    /\ UNCHANGED <<config, items, lastBuildDate, now>>

NextDate == CallFormatDate \/ Tick

SpecDate == InitDate /\ [][NextDate]_vars

(***************************************************************************)
(* SpecXml: formatXml as a function of the markup and the indent.  The     *)
(* markup is balanced: a root, with or without an XML declaration before   *)
(* it, around elements, self-closing tags, text and a comment.             *)
(***************************************************************************)
InitXml ==
    /\ InitFeed(NoConfig)
    /\ \E declaration \in {"", "<?xml version=\"1.0\"?>"},
          open \in {"<root>", "<a><b k=\"v\">"},
          content \in {"", "<item>content</item>", "<item/>",
                       "<item/><other>content</other>", "<t> X </t>",
                       "<t>  </t>", "text<b>x</b>", "<i k=\"v\">y</i><j/>",
                       "<!-- c --><j/>", "<p><q><r>z</r></q></p>"},
          indent \in {"  ", "    "} :
          ret = Returned("args",
                         [xml |-> declaration \o open \o content
                                  \o (IF open = "<root>" THEN "</root>" ELSE "</b></a>"),
                          indent |-> indent],
                         << >>)

CallFormatXml ==
    /\ ret' = Outcome("formatXml", ret.arg, formatXmlWith(ret.arg.xml, ret.arg.indent))
    /\ Unchanged_metadata
    /\ UNCHANGED <<config, items, lastBuildDate, now>>

SpecXml == InitXml /\ [][CallFormatXml]_vars

(***************************************************************************)
(* Properties.  A step is a call when the clock stands still (Tick is the  *)
(* only step that moves it); ret' then names the call and its outcome.     *)
(***************************************************************************)
IsCall == now' = now

IsPrefix(xs, ys) == Len(xs) <= Len(ys) /\ SubSeq(ys, 1, Len(xs)) = xs

\* C1: on a validating feed, addItem of data for which validateFeedItem
\* reports an error throws, and leaves the items (contents and order) and
\* lastBuildDate as they were.
C1_RejectedItemInsertsNothing ==
    [][ ( /\ IsCall
          /\ ret'.op = "addItem"
          /\ config.validate
          /\ validateFeedItem(ret'.arg, config.allowedDomains) # << >> )
        => ( /\ ret'.threw
             /\ items' = items
             /\ lastBuildDate' = lastBuildDate ) ]_vars

\* C1 witness: a rejected addItem on a non-empty validating feed, at an
\* instant later than the feed's lastBuildDate.
C1_Witness ==
    /\ ret.op = "addItem"
    /\ ret.threw
    /\ config.validate
    /\ validateFeedItem(ret.arg, config.allowedDomains) # << >>
    /\ items # << >>
    /\ lastBuildDate # toISOString(now)

\* The index of the first element of a batch that fails validation,
\* Len(batch) + 1 when none does.
FirstFailing(batch) ==
    LET fails(k) == validateFeedItem(batch[k], config.allowedDomains) # << >>
    IN  IF \E k \in 1..Len(batch) : fails(k)
        THEN CHOOSE k \in 1..Len(batch) :
                fails(k) /\ \A j \in 1..(k - 1) : ~fails(j)
        ELSE Len(batch) + 1

\* C2: addItems is not transactional.  On a validating feed, when element k
\* of the batch is the first to fail validation, the call throws and the
\* collection is the one before the call followed by the (processed)
\* elements 1..k-1 in order; element k and the later ones are not inserted.
C2_BatchKeepsEarlierItems ==
    [][ ( /\ IsCall
          /\ ret'.op = "addItems"
          /\ config.validate
          /\ FirstFailing(ret'.arg) <= Len(ret'.arg) )
        => LET batch == ret'.arg
               k == FirstFailing(batch)
           IN  /\ ret'.threw
               /\ items' = items \o [i \in 1..(k - 1) |-> processItemData(batch[i])] ]_vars

\* C2 witness: a batch whose second element failed, its first one kept.
C2_Witness ==
    /\ ret.op = "addItems"
    /\ ret.threw
    /\ config.validate
    /\ FirstFailing(ret.arg) = 2
    /\ items # << >>
    /\ items[Len(items)] = processItemData(ret.arg[1])

\* The host of an absolute URL (RFC 3986): the authority runs from the end
\* of the scheme to the first "/", "?" or "#"; the host is what is left of it
\* after the userinfo (up to the last "@") and the port (from the ":").
RECURSIVE AfterLast(_, _)
AfterLast(s, c) ==
    LET i == IndexOfAny(s, {c}, 1)
    IN  IF i > Len(s) THEN s ELSE AfterLast(SubSeq(s, i + 1, Len(s)), c)

HostOf(url) ==
    LET n == SchemeLen(url)
        authority == SubSeq(url, n + 1, IndexOfAny(url, {"/", "?", "#"}, n + 1) - 1)
        hostport == AfterLast(authority, "@")
    IN  ToLowerCase(SubSeq(hostport, 1, IndexOfAny(hostport, {":"}, 1) - 1))

\* The host is one of the allowed domains or a subdomain of one.
HostAllowed(url, allowedDomains) ==
    /\ SchemeLen(url) > 0
    /\ \E k \in 1..Len(allowedDomains) :
          \/ HostOf(url) = ToLowerCase(allowedDomains[k])
          \/ EndsWith(HostOf(url), "." \o ToLowerCase(allowedDomains[k]))

\* Every URL field an item carries.
UrlFields(item) ==
    {item.link}
    \cup { item.images[i].url : i \in DOMAIN item.images }
    \cup { item.videos[i].thumbnail_url : i \in DOMAIN item.videos }
    \cup { item.videos[i].content_url : i \in DOMAIN item.videos }
    \cup { item.translations[i].url : i \in DOMAIN item.translations }
    \cup { item.enclosure[i].url : i \in DOMAIN item.enclosure }

\* C3: on a validating feed with a non-empty allowedDomains, every URL field
\* of every held item has a host that is an allowed domain or a subdomain of
\* one.
C3_HeldUrlsAreInAllowedDomains ==
    (config.validate /\ config.allowedDomains # << >>)
    => \A i \in DOMAIN items :
          \A url \in UrlFields(items[i]) :
             HostAllowed(url, config.allowedDomains)

\* The indices of the items a predicate keeps.
Kept(its, p) == { i \in DOMAIN its : ~predicate(p, its[i]) }

\* The n-th smallest element of a set of numbers.
Nth(S, n) == CHOOSE x \in S : Cardinality({ y \in S : y <= x }) = n

\* C9: removeItems leaves exactly the items for which the predicate is
\* false, in their previous relative order; clear leaves the collection
\* empty; no other call removes an item (the old collection stays a prefix
\* of the new one).
C9_OnlyRemoveItemsAndClearRemove ==
    [][ IsCall =>
          IF ret'.op = "removeItems"
          THEN /\ Len(items') = Cardinality(Kept(items, ret'.arg))
               /\ \A j \in DOMAIN items' :
                     items'[j] = items[Nth(Kept(items, ret'.arg), j)]
          ELSE IF ret'.op = "clear"
          THEN items' = << >>
          ELSE IsPrefix(items, items') ]_vars

\* C9 witness: removeItems by title has run and has kept an item.
C9_Witness ==
    /\ ret.op = "removeItems"
    /\ ret.arg = "titleIsA"
    /\ items # << >>
    /\ \A i \in DOMAIN items : items[i].title # "A"

\* C10: every addItem that returns, every removeItems and every clear sets
\* lastBuildDate to the instant of the call, also when nothing is removed;
\* getStats reports lastBuildDate as lastModified.
C10_MutationsRefreshLastBuildDate ==
    [][ IsCall =>
          /\ ( \/ (ret'.op = "addItem" /\ ~ret'.threw)
               \/ ret'.op \in {"removeItems", "clear"} )
             => lastBuildDate' = toISOString(now)
          /\ ret'.op = "getStats"
             => ret'.val.lastModified = lastBuildDate' ]_vars

\* C10 witness: a removeItems that removed nothing, after the clock moved,
\* and a getStats that reports the refreshed date.
C10_Witness ==
    /\ ret.op = "getStats"
    /\ now > 0
    /\ items # << >>
    /\ lastBuildDate = toISOString(now)
    /\ ret.val.lastModified = toISOString(now)

\* C4: for a URL that passes the URL grammar and a non-empty allowedDomains,
\* validateUrl accepts the URL if and only if the URL's host is one of the
\* allowed domains or ends with "." and one of them; any other URL is
\* rejected with domain_not_allowed.
C4_DomainCheckDecidesByHost ==
    ( /\ ret.op = "validateUrl"
      /\ isValidUrl(ret.arg.url)
      /\ ret.arg.allowedDomains # << >> )
    => IF HostAllowed(ret.arg.url, ret.arg.allowedDomains)
       THEN ret.val = << >>
       ELSE ret.val # << >> /\ ret.val[1].type = "domain_not_allowed"

(***************************************************************************)
(* Rendering.                                                              *)
(***************************************************************************)

\* The parts of the document the renderer of a format hands to formatXml.
PartsOf(format) ==
    IF format = "rss" THEN generateRSSParts.parts ELSE generateAtomParts.parts

Reserved == {"<", ">", "\"", "'"}
Entities == {"&amp;", "&lt;", "&gt;", "&quot;", "&#39;"}

\* t holds no reserved character of its own: no <, >, " or ', and every &
\* opens one of the five entities escapeXml writes.
NoRawReserved(t) ==
    \A i \in 1..Len(t) :
        /\ Ch(t, i) \notin Reserved
        /\ Ch(t, i) = "&" =>
              \E e \in Entities :
                  /\ i + Len(e) - 1 <= Len(t)
                  /\ SubSeq(t, i, i + Len(e) - 1) = e

\* C5: in a document toXML returned, every text node and attribute value
\* that comes from the feed's metadata, an item's fields or the
\* configuration (the version in the generator tag included) is escaped: it
\* holds no raw <, >, &, " or '.
C5_EveryValueIsEscaped ==
    (ret.op = "toXML" /\ ~ret.threw)
    => \A k \in DOMAIN PartsOf(ret.arg) :
           PartsOf(ret.arg)[k].val => NoRawReserved(PartsOf(ret.arg)[k].t)

\* tests/setup.ts, toBeValidXML: the tags /<([^>]+)>/g of the document are
\* matched against a stack of open tag names.
firstWord(tag) == SubSeq(tag, 1, IndexOfAny(tag, {" "}, 1) - 1)

matchTag(tag, m) ==
    IF tag = "" \/ StartsWith(tag, "?") \/ StartsWith(tag, "!") THEN m
    ELSE IF StartsWith(tag, "/")
    THEN IF m.tags # << >> /\ m.tags[Len(m.tags)] = SubSeq(tag, 2, Len(tag))
         THEN [m EXCEPT !.tags = SubSeq(@, 1, Len(@) - 1)]
         ELSE [m EXCEPT !.pass = FALSE]
    ELSE IF ~EndsWith(tag, "/")
    THEN [m EXCEPT !.tags = Append(@, firstWord(tag))]
    ELSE m

\* the tags are the even tokens of the split
RECURSIVE matchTags(_, _, _, _)
matchTags(tokens, lo, hi, m) ==
    IF ~m.pass \/ lo > hi THEN m
    ELSE IF lo = hi
    THEN IF lo % 2 = 0
         THEN matchTag(SubSeq(tokens[lo], 2, Len(tokens[lo]) - 1), m)
         ELSE m
    ELSE LET mid == (lo + hi) \div 2
         IN  matchTags(tokens, mid + 1, hi, matchTags(tokens, lo, mid, m))

matched(m) == m.pass /\ m.tags = << >>

matchSplit(tokens) ==
    matched(matchTags(tokens, 1, Len(tokens), [pass |-> TRUE, tags |-> << >>]))

toBeValidXML(received) == matchSplit(SplitTags(received))

\* C6: toXML('rss') returns, it does not throw from the formatter, and the
\* document it returns is well-formed: every opening tag has a matching
\* closing tag in correct nesting.
C6_RssIsWellFormed ==
    (ret.op = "toXML" /\ ret.arg = "rss")
    => /\ ~(ret.threw /\ StartsWith(ret.val, "RangeError"))
       /\ ~ret.threw => toBeValidXML(ret.val)

QueryOps == {"getItems", "getItemCount", "validate", "getStats", "shouldSplit", "toXML"}

\* C7: getItems, getItemCount, validate, getStats, shouldSplit and toXML
\* leave the configuration, the metadata, the item collection and
\* lastBuildDate as they were, and a toXML call that follows a toXML call of
\* the same format, whatever time passed between them, gives the same
\* outcome, byte for byte.
C7_QueriesLeaveTheAggregateUnchanged ==
    [][ (IsCall /\ ret'.op \in QueryOps)
        => /\ aggregate' = aggregate
           /\ (ret.op = "toXML" /\ ret'.op = "toXML" /\ ret'.arg = ret.arg)
              => (ret'.threw = ret.threw /\ ret'.val = ret.val) ]_vars

C7_Witness ==
    /\ ret.op = "toXML"
    /\ ret.arg = "atom"
    /\ ~ret.threw
    /\ items # << >>
    /\ now > 0
    /\ lastBuildDate # toISOString(now)
    /\ ret.val = toXML("atom").v

BlockTag(format) == IF format = "rss" THEN "<item>" ELSE "<entry>"

\* Where the item or entry blocks of a document open, among its tokens.
BlockStarts(tokens, format) == {k \in DOMAIN tokens : tokens[k] = BlockTag(format)}

\* The n-th block of the document is that of the item: it opens with the
\* item's title, as the formatter leaves it.
BlockIsOf(tokens, k, item) ==
    /\ k + 3 <= Len(tokens)
    /\ tokens[k + 2] = "<title>"
    /\ Trim(tokens[k + 3]) = Trim(escapeXml(item.title))

BlocksFollow(xml, format, its) ==
    LET tokens == SplitTags(xml)
        starts == BlockStarts(tokens, format)
    IN  /\ Cardinality(starts) = Len(its)
        /\ \A n \in DOMAIN its : BlockIsOf(tokens, Nth(starts, n), its[n])

\* C8: a successful addItem puts the item after the items already held,
\* getItems returns the items in that order, and a document toXML returns
\* has one <item> (RSS) or <entry> (Atom) block for each held item, in the
\* order of the collection.
C8_InsertionOrderIsRenderOrder ==
    [][ IsCall
        => /\ (ret'.op = "addItem" /\ ~ret'.threw)
              => items' = Append(items, processItemData(ret'.arg))
           /\ ret'.op = "getItems" => ret'.val = items
           /\ (ret'.op = "toXML" /\ ~ret'.threw)
              => BlocksFollow(ret'.val, ret'.arg, items) ]_vars

C8_Witness ==
    /\ ret.op = "toXML"
    /\ ret.arg = "rss"
    /\ ~ret.threw
    /\ Len(items) = 2
    /\ items[1].title # items[2].title
    /\ BlocksFollow(ret.val, "rss", items)

(***************************************************************************)
(* The setters and the clock.                                              *)
(***************************************************************************)

SetterOps ==
    {"setTitle", "setDescription", "setLink", "setLanguage", "setCopyright",
     "setManagingEditor", "setWebMaster", "setCategory"}

\* C11: every setter call, and every addItem and addItems call, leaves
\* lastBuildDate at the instant of the call.
C11_EveryMutationRefreshesLastBuildDate ==
    [][ (IsCall /\ ret'.op \in SetterOps \cup {"addItem", "addItems"})
        => lastBuildDate' = toISOString(now) ]_vars

(***************************************************************************)
(* Feed.validate().                                                        *)
(***************************************************************************)

\* C12: validate() returns a list, empty or not, and never throws; a call
\* that throws a validation failure is an addItem on a validating feed.
C12_ValidateNeverThrows ==
    [][ IsCall
        => /\ ret'.op = "validate"
              => (~ret'.threw /\ DOMAIN ret'.val = 1..Len(ret'.val))
           /\ (ret'.threw /\ StartsWith(ret'.val, "Validation failed"))
              => (ret'.op = "addItem" /\ config.validate) ]_vars

C12_Witness ==
    /\ ret.op = "validate"
    /\ ~ret.threw
    /\ ret.val # << >>
    /\ \E i \in DOMAIN items : validateFeedItem(items[i], config.allowedDomains) # << >>

\* What an error says: its field path and its kind.
Finding(e) == << e.field, e.type >>

\* The feed's own findings: title, description and link must be given.
FeedFindings ==
    (IF title = "" THEN << << "title", "required" >> >> ELSE << >>)
    \o (IF description = "" THEN << << "description", "required" >> >> ELSE << >>)
    \o (IF link = "" THEN << << "link", "required" >> >> ELSE << >>)

\* The findings of the items from the i-th on, each under items[i - 1].
RECURSIVE ItemFindings(_)
ItemFindings(i) ==
    IF i > Len(items) THEN << >>
    ELSE LET errors == validateFeedItem(items[i], config.allowedDomains)
         IN  [k \in DOMAIN errors |->
                << "items[" \o ToString(i - 1) \o "]." \o errors[k].field,
                   errors[k].type >>]
             \o ItemFindings(i + 1)

\* C13: validate() returns the required-string errors of the feed's title,
\* description and link, in that order and with no URL check of the link,
\* then for each held item in index order the errors validateFeedItem gives
\* for it, their field paths under items[i]; the list is empty exactly when
\* the three feed fields are given and no item has an error.
C13_ValidateListsFeedThenItemErrors ==
    [][ (IsCall /\ ret'.op = "validate")
        => /\ [k \in DOMAIN ret'.val |-> Finding(ret'.val[k])]
                = FeedFindings \o ItemFindings(1)
           /\ ret'.val = << >>
              <=> /\ title # "" /\ description # "" /\ link # ""
                  /\ \A i \in DOMAIN items :
                        validateFeedItem(items[i], config.allowedDomains) = << >> ]_vars

C13_Witness ==
    /\ ret.op = "validate"
    /\ link = "not a url"
    /\ title = ""
    /\ Len(items) = 2
    /\ Len(ret.val) >= 3
    /\ Finding(ret.val[1]) = << "title", "required" >>
    /\ Finding(ret.val[2]) = << "description", "required" >>
    /\ Finding(ret.val[3]) = << "items[1].title", "required" >>

\* C20: an item added without a pubdate reads, through getPubDate, as of the
\* instant of its insertion (for the item added last, the feed's
\* lastBuildDate), and a later read of the same item gives the same value.
C20_MissingPubDateIsTheInsertionInstant ==
    [][ (IsCall /\ ret'.op = "getPubDate" /\ items[ret'.arg].pubdate = << >>)
        => /\ ret'.arg = Len(items) => ret'.val = lastBuildDate
           /\ (ret.op = "getPubDate" /\ ret.arg = ret'.arg) => ret'.val = ret.val ]_vars

(***************************************************************************)
(* validateFeedItem.                                                       *)
(***************************************************************************)

\* The field paths of an item in the order its rules are applied.
FieldOrder(item) ==
    << "title", "description", "link", "author", "priority" >>
    \o [k \in 1..Len(item.images) |-> "images[" \o ToString(k - 1) \o "].url"]
    \o [k \in 1..(4 * Len(item.videos)) |->
          "videos[" \o ToString((k - 1) \div 4) \o "]."
          \o << "thumbnail_url", "content_url", "title", "description" >>[((k - 1) % 4) + 1]]
    \o [k \in 1..(2 * Len(item.translations)) |->
          "translations[" \o ToString((k - 1) \div 2) \o "]."
          \o << "language", "url" >>[((k - 1) % 2) + 1]]

PlaceOf(path, order) == CHOOSE k \in DOMAIN order : order[k] = path

Rule(violated, path, type) == IF violated THEN {<< path, type >>} ELSE {}

UrlRule(url, path, allowedDomains) ==
    {Finding(validateUrl(url, path, allowedDomains)[k]) :
        k \in DOMAIN validateUrl(url, path, allowedDomains)}

\* Every rule of every field, each applied on its own.
Violations(item, allowedDomains) ==
    Rule(Trim(item.title) = "", "title", "required")
    \cup Rule(Trim(item.description) = "", "description", "required")
    \cup UrlRule(item.link, "link", allowedDomains)
    \cup Rule(item.author # << >> /\ Trim(item.author[1]) = "", "author", "required")
    \cup Rule(item.priority # << >> /\ ~isValidPriority(item.priority[1]),
              "priority", "invalid_range")
    \cup UNION { UrlRule(item.images[k].url,
                         "images[" \o ToString(k - 1) \o "].url", allowedDomains) :
                    k \in DOMAIN item.images }
    \cup UNION { UrlRule(item.videos[k].thumbnail_url,
                         "videos[" \o ToString(k - 1) \o "].thumbnail_url", allowedDomains)
                 \cup UrlRule(item.videos[k].content_url,
                         "videos[" \o ToString(k - 1) \o "].content_url", allowedDomains)
                 \cup Rule(Trim(item.videos[k].title) = "",
                         "videos[" \o ToString(k - 1) \o "].title", "required")
                 \cup Rule(Trim(item.videos[k].description) = "",
                         "videos[" \o ToString(k - 1) \o "].description", "required") :
                    k \in DOMAIN item.videos }
    \cup UNION { Rule(Trim(item.translations[k].language) = "",
                         "translations[" \o ToString(k - 1) \o "].language", "required")
                 \cup Rule(~isValidLanguageCode(item.translations[k].language),
                         "translations[" \o ToString(k - 1) \o "].language",
                         "invalid_language")
                 \cup UrlRule(item.translations[k].url,
                         "translations[" \o ToString(k - 1) \o "].url", allowedDomains) :
                    k \in DOMAIN item.translations }

\* C14: validateFeedItem returns the violation of every rule of every
\* field, each once, in the order title, description, link, author,
\* priority, images[i].url, videos[i] (thumbnail_url, content_url, title,
\* description), translations[i] (language, url); a second call with the
\* same input returns the same list.
C14_AllViolationsInFixedOrder ==
    [][ ret'.op = "validateFeedItem"
        => LET errors == ret'.val
               order == FieldOrder(ret'.arg.item)
           IN  /\ {Finding(errors[k]) : k \in DOMAIN errors}
                    = Violations(ret'.arg.item, ret'.arg.allowedDomains)
               /\ Len(errors)
                    = Cardinality(Violations(ret'.arg.item, ret'.arg.allowedDomains))
               /\ \A k \in 1..(Len(errors) - 1) :
                     PlaceOf(errors[k].field, order) <= PlaceOf(errors[k + 1].field, order)
               /\ ret.op = "validateFeedItem" => ret'.val = ret.val ]_vars

C14_Witness ==
    /\ ret.op = "validateFeedItem"
    /\ ret.arg.call = 2
    /\ Len(ret.val) >= 8
    /\ Finding(ret.val[1]) = << "title", "required" >>
    /\ Finding(ret.val[2]) = << "description", "required" >>
    /\ \E k \in DOMAIN ret.val :
          Finding(ret.val[k]) = << "translations[1].url", "invalid_url" >>

(***************************************************************************)
(* Size management and statistics.                                         *)
(***************************************************************************)

\* C15: for a feed constructed with the limits maxItems and maxFileSize,
\* both non-negative, that holds n items, shouldSplit() is true exactly
\* when n > maxItems or 1000 + 2000 * n > maxFileSize (so it is false when
\* n = maxItems and the estimate = maxFileSize).
C15_SplitIffOverALimit ==
    ret.op = "shouldSplit"
    => \A maxItems \in {0, 1, 2}, maxFileSize \in {0, 3000, 5000} :
          config = FeedConstructor([NoConfig EXCEPT !.maxItems = << maxItems >>,
                                                    !.maxFileSize = << maxFileSize >>])
          => ret.val = ( \/ Len(items) > maxItems
                         \/ 1000 + 2000 * Len(items) > maxFileSize )

\* The sum of the lengths of one list field over the first n held items.
RECURSIVE HeldTotal(_, _)
HeldTotal(n, field) ==
    IF n = 0 THEN 0 ELSE HeldTotal(n - 1, field) + Len(items[n][field])

WithPriority == { i \in DOMAIN items : items[i].priority # << >> }

\* C16: what getStats() returned describes the held items: totalItems is
\* their number, totalImages, totalVideos and totalTranslations are the sums
\* of the lengths of their lists, sizeEstimate is 1000 + 2000 * totalItems,
\* the average is taken over the items that have a priority only (0 when
\* there is none) and lastModified is lastBuildDate.
C16_StatsDescribeTheHeldItems ==
    ret.op = "getStats"
    => /\ ret.val.totalItems = Len(items)
       /\ ret.val.totalImages = HeldTotal(Len(items), "images")
       /\ ret.val.totalVideos = HeldTotal(Len(items), "videos")
       /\ ret.val.totalTranslations = HeldTotal(Len(items), "translations")
       /\ ret.val.sizeEstimate = 1000 + 2000 * ret.val.totalItems
       /\ ret.val.averagePriority[2] = Cardinality(WithPriority)
       /\ WithPriority = {} => ret.val.averagePriority = << 0, 0 >>
       /\ ret.val.lastModified = lastBuildDate

\* getStats() has answered for a feed that holds an item with a priority and
\* media lists and an item without a priority.
C16_Witness ==
    /\ ret.op = "getStats"
    /\ Len(items) = 2
    /\ Cardinality(WithPriority) = 1
    /\ ret.val.totalImages = 1
    /\ ret.val.totalTranslations = 1

(***************************************************************************)
(* Feed.toXML(format)                                                      *)
(***************************************************************************)

\* The root element's opening tag: the second tag of the document, after
\* the XML declaration.
RootOf(xml) == SplitTags(xml)[4]

\* C17: toXML with a format other than 'rss' and 'atom' throws an error
\* whose message names the requested value and changes nothing of the feed;
\* a document returned for 'rss' has the root <rss>, one returned for 'atom'
\* the root <feed>.
C17_UnknownFormatThrows ==
    [][ (IsCall /\ ret'.op = "toXML")
        => /\ ret'.arg \notin {"rss", "atom"}
               => /\ ret'.threw
                  /\ EndsWith(ret'.val, ": " \o ret'.arg)
                  /\ UNCHANGED <<config, items, lastBuildDate, title,
                                 description, link, language, copyright,
                                 managingEditor, webMaster, category>>
           /\ (ret'.arg = "rss" /\ ~ret'.threw)
               => StartsWith(RootOf(ret'.val), "<rss version=\"2.0\"")
           /\ (ret'.arg = "atom" /\ ~ret'.threw)
               => StartsWith(RootOf(ret'.val), "<feed xmlns=") ]_vars

\* toXML('json') has thrown on a feed that holds items.
C17_Witness ==
    /\ ret.op = "toXML"
    /\ ret.arg = "json"
    /\ ret.threw
    /\ items # << >>

\* s.includes(sub)
Includes(s, sub) ==
    \E i \in 1..(Len(s) - Len(sub) + 1) : SubSeq(s, i, i + Len(sub) - 1) = sub

\* C18: the root of an RSS document declares the media namespace iff some
\* held item carries an image or a video, and the news namespace iff some
\* held item carries a news block; with neither, the root is
\* <rss version="2.0">.  It follows the items held when the document is
\* rendered, after the removals before it.
C18_NamespacesFollowTheHeldItems ==
    (ret.op = "toXML" /\ ret.arg = "rss" /\ ~ret.threw)
    => /\ Includes(RootOf(ret.val), " xmlns:media=")
           <=> \E i \in DOMAIN items :
                   Len(items[i].images) + Len(items[i].videos) > 0
       /\ Includes(RootOf(ret.val), " xmlns:news=")
           <=> \E i \in DOMAIN items : items[i].news # << >>
       /\ (\A i \in DOMAIN items :
               /\ Len(items[i].images) + Len(items[i].videos) = 0
               /\ items[i].news = << >>)
           => RootOf(ret.val) = "<rss version=\"2.0\">"

\* An RSS document was rendered for a feed whose second item only carries a
\* video and none of whose items carries a news block.
C18_Witness ==
    /\ ret.op = "toXML"
    /\ ret.arg = "rss"
    /\ ~ret.threw
    /\ Len(items) = 2
    /\ items[1].images = << >> /\ items[1].videos = << >>
    /\ items[2].images = << >> /\ items[2].videos # << >>
    /\ Includes(RootOf(ret.val), " xmlns:media=")
    /\ ~Includes(RootOf(ret.val), " xmlns:news=")

\* The text of the first <title> element among the tokens of a document:
\* the feed's title.
FeedTitleIn(tokens) ==
    Trim(tokens[1 + CHOOSE k \in DOMAIN tokens :
                        /\ tokens[k] = "<title>"
                        /\ \A j \in 1..(k - 1) : tokens[j] # "<title>"])

\* C19: escapeContent controls the escaping of the renderers: the feed's
\* title is written escaped when it is true and as it is when it is false.
C19_EscapeContentControlsEscaping ==
    (ret.op = "toXML" /\ ~ret.threw)
    => FeedTitleIn(SplitTags(ret.val))
           = IF config.escapeContent THEN escapeXml(title) ELSE title

(***************************************************************************)
(* Relative URLs and the base URL.                                         *)
(***************************************************************************)

\* What the feed stores for the URL value u: u itself when no base is
\* configured or u starts with http:// or https://, otherwise the base
\* without one trailing slash, then u with a leading slash.
StoredUrl(u) ==
    IF config.baseUrl = "" THEN u
    ELSE IF (Len(u) >= 7 /\ SubSeq(u, 1, 7) = "http://")
            \/ (Len(u) >= 8 /\ SubSeq(u, 1, 8) = "https://")
    THEN u
    ELSE (IF Ch(config.baseUrl, Len(config.baseUrl)) = "/"
          THEN SubSeq(config.baseUrl, 1, Len(config.baseUrl) - 1)
          ELSE config.baseUrl)
         \o (IF u # "" /\ Ch(u, 1) = "/" THEN "" ELSE "/") \o u

\* C21: the item addItem stores has the link, the image URLs, the video
\* thumbnail and content URLs and the translation URLs of the input, each
\* resolved against the base (unchanged when it is absolute or no base is
\* configured), and every other field as given.
C21_UrlFieldsAreResolvedAgainstTheBase ==
    [][ (IsCall /\ ret'.op = "addItem" /\ ~ret'.threw)
        => LET stored == items'[Len(items')]
               given == ret'.arg
           IN  /\ stored.link = StoredUrl(given.link)
               /\ Len(stored.images) = Len(given.images)
               /\ \A k \in DOMAIN given.images :
                      stored.images[k].url = StoredUrl(given.images[k].url)
               /\ Len(stored.videos) = Len(given.videos)
               /\ \A k \in DOMAIN given.videos :
                      /\ stored.videos[k].thumbnail_url
                            = StoredUrl(given.videos[k].thumbnail_url)
                      /\ stored.videos[k].content_url
                            = StoredUrl(given.videos[k].content_url)
               /\ Len(stored.translations) = Len(given.translations)
               /\ \A k \in DOMAIN given.translations :
                      stored.translations[k].url
                        = StoredUrl(given.translations[k].url)
               /\ [stored EXCEPT !.link = "", !.images = << >>,
                                 !.videos = << >>, !.translations = << >>]
                  = [given EXCEPT !.link = "", !.images = << >>,
                                  !.videos = << >>, !.translations = << >>] ]_vars

\* An item with the link 'a' was added to a feed whose base ends with a
\* slash, and is stored with the link https://example.com/a.
C21_Witness ==
    /\ ret.op = "addItem"
    /\ ~ret.threw
    /\ config.baseUrl = "https://example.com/"
    /\ ret.arg.link = "a"
    /\ items[Len(items)].link = "https://example.com/a"

\* A relative path: a value with no scheme.
RelativePath(u) == u # "" /\ IndexOfAny(u, {":"}, 1) > Len(u)

\* C22: on a feed with a base, validating or not, addItem of an item whose
\* link is a relative path that resolves to a valid URL of an allowed
\* domain inserts the item with the resolved link, and validate() reports
\* no error for the link of an item stored from such a path.
C22_RelativeLinkIntoAllowedDomainIsAccepted ==
    [][ IsCall
        => /\ ( /\ ret'.op = "addItem"
                /\ config.baseUrl # ""
                /\ RelativePath(ret'.arg.link)
                /\ validateUrl(StoredUrl(ret'.arg.link), "link",
                               config.allowedDomains) = << >> )
              => /\ ~ret'.threw
                 /\ Len(items') = Len(items) + 1
                 /\ items'[Len(items')].link = StoredUrl(ret'.arg.link)
           /\ (ret'.op = "validate" /\ config.baseUrl # "")
              => \A i \in DOMAIN items :
                    (\E given \in BaseItems :
                        /\ RelativePath(given.link)
                        /\ items[i].link = StoredUrl(given.link))
                    => \A k \in DOMAIN ret'.val :
                          ret'.val[k].field
                            # "items[" \o ToString(i - 1) \o "].link" ]_vars

\* C30: on a feed with a base, an item whose link the validator's URL
\* grammar accepts is stored with that same link.
C30_ValidUrlsAreStoredUnchanged ==
    [][ ( /\ IsCall
          /\ ret'.op = "addItem"
          /\ ~ret'.threw
          /\ config.baseUrl # ""
          /\ isValidUrl(ret'.arg.link) )
        => items'[Len(items')].link = ret'.arg.link ]_vars

(***************************************************************************)
(* The elements of a rendered item.                                        *)
(***************************************************************************)

\* The tags <name ...> among the tokens that carry the attribute attr.
TagsWith(tokens, name, attr) ==
    { k \in DOMAIN tokens :
        /\ StartsWith(tokens[k], "<" \o name \o " ")
        /\ Includes(tokens[k], " " \o attr \o "=\"") }

\* The entries of the list field of the held items for which attr was
\* supplied.
SuppliedIn(field, attr) ==
    UNION { { << i, k >> : k \in { j \in DOMAIN items[i][field] :
                                     items[i][field][j][attr] # << >> } } :
            i \in DOMAIN items }

OptionalAttributesIn(tokens) ==
    /\ Cardinality(TagsWith(tokens, "enclosure", "length"))
         = Cardinality(SuppliedIn("enclosure", "length"))
    /\ Cardinality(TagsWith(tokens, "media:content", "duration"))
         = Cardinality(SuppliedIn("videos", "duration"))
    /\ Cardinality(TagsWith(tokens, "media:content", "width"))
         = Cardinality(SuppliedIn("images", "width"))
    /\ Cardinality(TagsWith(tokens, "media:content", "height"))
         = Cardinality(SuppliedIn("images", "height"))
    /\ Cardinality({ k \in TagsWith(tokens, "media:content", "type") :
                        ~Includes(tokens[k], " type=\"video\"") })
         = Cardinality(SuppliedIn("images", "type"))

\* C23: an RSS document has the length attribute on as many enclosures as
\* items were given an enclosure length, the duration attribute on as many
\* videos as were given a duration, and the width, height and type
\* attributes on as many images as were given each, whatever the value
\* given, 0 included.
C23_OptionalAttributesIffSupplied ==
    (ret.op = "toXML" /\ ret.arg = "rss" /\ ~ret.threw)
    => OptionalAttributesIn(SplitTags(ret.val))

\* Where the block that opens at token k closes.
BlockEnd(tokens, k, closing) ==
    CHOOSE j \in k..Len(tokens) :
        tokens[j] = closing /\ \A i \in k..(j - 1) : tokens[i] # closing

\* The identifier elements of the block that opens at token k.
IdentifiersIn(tokens, k, format) ==
    { j \in k..BlockEnd(tokens, k, IF format = "rss" THEN "</item>" ELSE "</entry>") :
        tokens[j] = IF format = "rss" THEN "<guid>" ELSE "<id>" }

IdentifiedBy(tokens, k, format, item) ==
    /\ Cardinality(IdentifiersIn(tokens, k, format)) = 1
    /\ \A j \in IdentifiersIn(tokens, k, format) :
           Trim(tokens[j + 1])
             = escapeXml(IF item.guid # << >> THEN item.guid[1] ELSE item.link)

EachIdentified(tokens, format) ==
    \A n \in DOMAIN items :
        IdentifiedBy(tokens, Nth(BlockStarts(tokens, format), n), format, items[n])

\* C24: in a document toXML returned, the block of every held item has
\* exactly one identifier, <guid> in RSS and <id> in Atom, whose text is the
\* item's guid when one was supplied and the stored link otherwise.
C24_OneIdentifierPerItem ==
    (ret.op = "toXML" /\ ~ret.threw) => EachIdentified(SplitTags(ret.val), ret.arg)

\* An Atom document was rendered for a feed that holds an item with a guid
\* and an item without one.
C24_Witness ==
    /\ ret.op = "toXML"
    /\ ret.arg = "atom"
    /\ ~ret.threw
    /\ Len(items) = 2
    /\ items[1].guid = << >>
    /\ items[2].guid # << >>

(***************************************************************************)
(* The date normalizer.                                                    *)
(***************************************************************************)

\* The instant, in seconds, that a date value stands for; << >> when it
\* stands for none.
InstantOf(date) ==
    IF date.type = "string" THEN DateParse(date.text)
    ELSE IF date.at = << >> THEN << >>
    ELSE << date.at[1] \div 1000 >>

\* C25: formatDate gives, for a value that stands for an instant, the ISO
\* representation of that instant, and throws an error that names the value
\* for a string or number that stands for none and for an invalid Date; it
\* never answers with another instant than the one supplied.
C25_FormatDateKeepsTheInstantOrThrows ==
    ret.op = "formatDate"
    => IF InstantOf(ret.arg) # << >>
       THEN ~ret.threw /\ ret.val = toISOString(InstantOf(ret.arg)[1])
       ELSE ret.threw /\ Includes(ret.val, ret.arg.text)

(***************************************************************************)
(* formatXml                                                               *)
(***************************************************************************)

\* The kinds of tag of a balanced document.
IsClosingTag(t) == StartsWith(t, "</")
IsSelfClosingTag(t) == StartsWith(t, "<") /\ EndsWith(t, "/>")
IsOpeningTag(t) ==
    /\ StartsWith(t, "<")
    /\ ~StartsWith(t, "</") /\ ~StartsWith(t, "<?") /\ ~StartsWith(t, "<!")
    /\ ~EndsWith(t, "/>")

\* The nesting depth at token k: the elements opened and not yet closed
\* before it.
DepthAt(tokens, k) ==
    Cardinality({ j \in 1..(k - 1) : IsOpeningTag(tokens[j]) })
    - Cardinality({ j \in 1..(k - 1) : IsClosingTag(tokens[j]) })

\* The formatter after the tokens 1..k.
FormatterAt(tokens, indent, k) ==
    FormatTokens(tokens, indent, 1, k, Formatted("", 0))

\* What the formatter writes for the tokens lo..hi.
Written(tokens, indent, lo, hi) ==
    SubSeq(FormatterAt(tokens, indent, hi).result,
           Len(FormatterAt(tokens, indent, lo - 1).result) + 1,
           Len(FormatterAt(tokens, indent, hi).result))

FormattedAsClaimed(tokens, indent) ==
    /\ \A k \in DOMAIN tokens :
          /\ FormatterAt(tokens, indent, k).level >= 0
          /\ (IsOpeningTag(tokens[k]) \/ IsSelfClosingTag(tokens[k]))
             => StartsWith(Written(tokens, indent, k, k),
                           Repeat(indent, DepthAt(tokens, k)) \o tokens[k])
          /\ ( /\ IsOpeningTag(tokens[k])
               /\ k + 2 <= Len(tokens)
               /\ Trim(tokens[k + 1]) # ""
               /\ IsClosingTag(tokens[k + 2]) )
             => Written(tokens, indent, k, k + 2)
                  = Repeat(indent, DepthAt(tokens, k)) \o tokens[k]
                    \o Trim(tokens[k + 1]) \o tokens[k + 2] \o "\n"
          /\ StartsWith(tokens[k], "<?xml")
             => Written(tokens, indent, k, k) = tokens[k] \o "\n"
    /\ FormatterAt(tokens, indent, Len(tokens)).level = 0

\* C26: for balanced markup, formatXml writes every opening and
\* self-closing tag after the indent repeated as many times as the tag is
\* deep, writes an element that holds text only on one line, writes the
\* XML declaration as it is on a line of its own, keeps its depth counter
\* at or above zero and ends with it at zero, and returns a text that
\* neither starts nor ends with whitespace.
C26_FormatXmlIndentsByDepth ==
    ret.op = "formatXml"
    => /\ ~ret.threw
       /\ ret.val = Trim(ret.val)
       /\ FormattedAsClaimed(SplitTags(ret.arg.xml), ret.arg.indent)

\* C27: when validate() returns an empty list for the feed as it is,
\* toXML('rss') and toXML('atom') return a document and do not throw.  (The
\* feeds looked at have the default version, which holds no markup.)
C27_ValidFeedsRender ==
    ( /\ ret.op = "toXML"
      /\ ret.arg \in {"rss", "atom"}
      /\ config.version = "1.0.0"
      /\ validate = << >> )
    => ~ret.threw

(***************************************************************************)
(* Feed.removeItems with a predicate that throws.                          *)
(***************************************************************************)

\* C28: when the predicate handed to removeItems throws at one of the held
\* items, removeItems throws, no item is removed (also none of those the
\* predicate had already asked to remove) and lastBuildDate stays as it was.
C28_ThrowingPredicateRemovesNothing ==
    [][ ( /\ IsCall
          /\ ret'.op = "removeItems"
          /\ \E i \in DOMAIN items : predicateThrows(ret'.arg, items[i]) )
        => ( /\ ret'.threw
             /\ items' = items
             /\ lastBuildDate' = lastBuildDate ) ]_vars

\* removeItems has thrown at the second item, after the predicate asked for
\* the removal of the first, at a time later than the last mutation.
C28_Witness ==
    /\ ret.op = "removeItems"
    /\ ret.threw
    /\ Len(items) = 2
    /\ items[1].title = "A"
    /\ items[2].title = "M"
    /\ lastBuildDate # toISOString(now)

(***************************************************************************)
(* Ownership of the items.                                                 *)
(***************************************************************************)

\* C29: addItem leaves the object it was passed as the caller wrote it (the
\* URLs are resolved on a copy); a later assignment to a field of that
\* object, and a push or pop on the array getItems returned, leave the
\* feed's items, and so their count, as they were.
C29_TheFeedOwnsItsItems ==
    [][ IsCall
        => /\ (ret'.op = "addItem" /\ ~ret'.threw)
              => /\ ret'.arg \in BaseItems
                 /\ config.baseUrl # "" /\ RelativePath(ret'.arg.link)
                    => items'[Len(items')].link # ret'.arg.link
           /\ ret'.op \in {"input.title =", "array.push", "array.pop"}
              => /\ items' = items
                 /\ Len(items') = Len(items)
           /\ ret'.op = "getItems" => ret'.val = items ]_vars

\* The caller has changed the title of the object it passed to addItem, and
\* the item stored from it has the title it was given.
C29_Witness ==
    /\ ret.op = "input.title ="
    /\ ret.arg.title = "changed"
    /\ items # << >>
    /\ items[Len(items)].title = "A"
    /\ items[Len(items)].link # ret.arg.link

====
